---- MODULE Spec2Model ----
(***************************************************************************)
(* Model of polyscope's resilient upstream client (src/api/                *)
(* polymarket_api.js: CircuitBreaker, RateLimiter, PolymarketAPI.request,  *)
(* PolymarketAPI.getCached) and of its position tracker (src/api/index.js: *)
(* LivePositionTracker.updatePosition / performUpdate /                    *)
(* updateAllPositions).                                                    *)
(*                                                                         *)
(* Node runs the program on one thread: a handler runs to its next await   *)
(* without interruption, so every action below is one such synchronous     *)
(* segment.  Time (Date.now()) is the variable now, in ticks; it advances  *)
(* only between segments.                                                  *)
(***************************************************************************)
EXTENDS Integers, Sequences, FiniteSets, TLC

VARIABLES
  now,        \* Date.now(), in ticks
  threshold,  \* config.circuitBreakerThreshold
  cb,         \* circuitBreakers: group -> [state, failures, lastFailure, nextAttempt]
  lastOp,     \* the last direct call on a breaker at the current tick, and what it returned
  streak,     \* history: group -> failures recorded since the last success, and when they reached threshold
  capacity,   \* RateLimiter.capacity (config.rateLimitRPS)
  rl,         \* RateLimiter: [tokens, lastRefill]; tokens counted in 1/TicksPerSecond of a token
  acq,        \* direct callers of acquire(): caller -> [pc, wakeAt, rank, called, slept]
  burst,      \* history: [start, count]: the acquire() calls made at the tick a call last found the bucket full
  maxRetries, \* config.maxRetries
  audit,      \* AuditLogger: [enabled, logs] and history [appended]: the entries ever pushed
  req,        \* calls of request(): id -> position in request(), its locals, and the history of its attempts
  cache,      \* PolymarketAPI.cache: key -> [has, data, timestamp]
  pendingRequests, \* PolymarketAPI.pendingRequests: key -> the fetch promise registered, 0 for none
  fetches,    \* the fetchFn() promises: id -> [key, st]; the value a fetch resolves with is its id
  cc,         \* calls of getCached(): caller -> [pc, key, awaiting, value] and history [joined, started]
  mw,         \* the HTTP cache middleware: [store, pending, promise, reqs]
  file,       \* the positions file (config.positionsPath): the sequence of positions it holds
  updateLocks, \* LivePositionTracker.updateLocks: lock key -> the updatePosition() call whose performUpdate promise is registered, 0 for none
  upc,        \* calls of updatePosition(), numbered in call order: [pc, pos, owner, waitOn, result] and history [ok, found, ranOwn]
  nCalls,     \* updatePosition() calls made so far
  bat,        \* calls of updateAllPositions(): [pc, loaded, active, i, updated, wave, toSave, returned] and history [calls, waves]
  ops,        \* calls of addPosition() and closePosition(): [pc, toSave, ret]
  proc,       \* the process: "up", "crashed" (killed), "restarted"
  recovered,  \* what loadPositions() returned after the restart
  timer,      \* the poll loop: [intervalId, timers, starts, running] and history [stopped, fired]
  alertHistory,    \* AlertManager.alertHistory: fingerprint -> time last sent, NoTime for none
  persistedAlerts, \* AlertManager.persistedAlerts: the alert records [fingerprint, timestamp]
  histFile,   \* the alert history file: [alerts, partial, writers]
  enableWebhooks,  \* config.enableWebhooks
  pipes,      \* calls of processAlerts(): [pc, raw, cur, data, hooks, processed]
  sends,      \* history: fingerprint -> the times shouldSendAlert() answered shouldSend
  ndisp,      \* history: fingerprint -> calls of dispatch()
  badSuppress, \* history: an alert was suppressed with no send inside the window before it
  calc        \* a call of one of the pure functions: its arguments and, once it has run, what it returned

breakerVars == <<threshold, cb, lastOp, streak>>
limiterVars == <<capacity, rl, acq, burst>>
requestVars == <<maxRetries, req, audit>>
cacheVars == <<cache, pendingRequests, fetches, cc, mw>>
lifeVars == <<ops, proc, recovered, timer>>
trackerVars == <<file, updateLocks, upc, nCalls, bat, lifeVars>>
alertVars == <<alertHistory, persistedAlerts, histFile, enableWebhooks, pipes,
               sends, ndisp, badSuppress>>
vars == <<now, breakerVars, limiterVars, requestVars, cacheVars, trackerVars, alertVars, calc>>

\* ------------------------------------------------------------------ bounds
MaxTime == 5        \* ticks the clock may advance
MaxThreshold == 2   \* thresholds drawn at construction: 1..MaxThreshold
MaxFailures == 3    \* cap of the failure counter in the breaker-only specification
CBTimeout == 2      \* config.circuitBreakerTimeout, in ticks
TicksPerSecond == 2 \* ticks in the 1000 ms of refillRate = requestsPerSecond / 1000
MaxCapacity == 2    \* capacities drawn at construction: 1..MaxCapacity
NumCallers == 3     \* direct callers of acquire()
MaxTimeReq == 3     \* ticks the clock may advance in the request specification
MaxRetriesMax == 2  \* maxRetries drawn at construction: 0..MaxRetriesMax
BaseDelay == 1      \* config.baseDelay, in ticks
MaxJitter == 1      \* Math.random() * 1000 ms, rounded up to ticks: 0..MaxJitter
MaxTimeCache == 3   \* ticks the clock may advance in the cache specification
CacheTTL == 2       \* config.cacheTTL, in ticks
MaxFetches == 3     \* fetchFn() invocations
MaxTimeTracker == 1 \* ticks the clock may advance in the tracker specification
MaxCalls == 3       \* updatePosition() calls
ConcurrentUpdates == 2  \* config.concurrentUpdates
MaxRev == 1         \* market data samples a refresh may read: 1..MaxRev
MaxPollCalls == 5   \* updatePosition() calls in the poll-loop specification
MaxTimeAlerts == 3  \* the last tick of the clock in the alert specification
DedupWindow == 1    \* config.alertDeduplicationWindow, in ticks
MaxAlertsInMemory == 4  \* config.maxAlertsInMemory
MaxLogs == 4        \* AuditLogger.maxLogs
MaxTimeCleanup == 5 \* the last tick of the clock in the cleanup specification
HourTicks == 2      \* ticks in the 60 * 60 * 1000 ms of the price window
MaxTimePrice == 4   \* ticks the clock may advance in the price specification
MaxSamples == 4     \* trackPriceHistory() calls
MaxPriceHistory == 3  \* config.maxPriceHistory
MaxTimerCycles == 2 \* update cycles the interval timers may start

Groups == {"gamma", "clob"}
NoTime == -1        \* null (lastFailure before any failure)

Min(a, b) == IF a <= b THEN a ELSE b
Max(a, b) == IF a >= b THEN a ELSE b

\* ---------------------------------------------------------- CircuitBreaker
\* constructor(threshold, timeout) at time t
NewBreaker(t) ==
  [state |-> "CLOSED", failures |-> 0, lastFailure |-> NoTime, nextAttempt |-> t]

\* canExecute() admitting the probe without moving to HALF_OPEN
canExecute_NoHalfOpen(b, t) ==
  IF b.state = "OPEN" /\ t < b.nextAttempt
  THEN [ret |-> FALSE, cb |-> b, emit |-> "none"]
  ELSE [ret |-> TRUE, cb |-> b, emit |-> "none"]

\* canExecute(): the value returned, the breaker afterwards, the event emitted
canExecute(b, t) ==
  IF b.state = "CLOSED" THEN [ret |-> TRUE, cb |-> b, emit |-> "none"]
  ELSE IF b.state = "OPEN" THEN
    IF t >= b.nextAttempt
    THEN [ret |-> TRUE, cb |-> [b EXCEPT !.state = "HALF_OPEN"], emit |-> "halfOpen"]
    ELSE [ret |-> FALSE, cb |-> b, emit |-> "none"]
  ELSE [ret |-> TRUE, cb |-> b, emit |-> "none"]

recordSuccess(b) ==
  IF b.state = "HALF_OPEN"
  THEN [cb |-> [b EXCEPT !.failures = 0, !.state = "CLOSED"], emit |-> "close"]
  ELSE [cb |-> [b EXCEPT !.failures = 0], emit |-> "none"]

\* recordFailure() opening one failure late (failures > threshold)
recordFailure_Late(b, t, th) ==
  LET f == b.failures + 1 IN
  IF f > th
  THEN [cb |-> [state |-> "OPEN", failures |-> f, lastFailure |-> t,
                nextAttempt |-> t + CBTimeout],
        emit |-> "open"]
  ELSE [cb |-> [b EXCEPT !.failures = f, !.lastFailure = t], emit |-> "none"]

recordFailure(b, t, th) ==
  LET f == b.failures + 1 IN
  IF f >= th
  THEN [cb |-> [state |-> "OPEN", failures |-> f, lastFailure |-> t,
                nextAttempt |-> t + CBTimeout],
        emit |-> "open"]
  ELSE [cb |-> [b EXCEPT !.failures = f, !.lastFailure = t], emit |-> "none"]

\* ------------------------------------------------------------- RateLimiter
Callers == 1..NumCallers

\* constructor(requestsPerSecond) at time t: a full bucket
NewLimiter(cap, t) == [tokens |-> cap * TicksPerSecond, lastRefill |-> t]

\* refill() without the cap at capacity
refill_NoCap(l, t, cap) ==
  [tokens |-> l.tokens + (t - l.lastRefill) * cap, lastRefill |-> t]

\* refill(): tokens = min(capacity, tokens + elapsed * refillRate), refillRate = capacity / 1000 per ms
refill(l, t, cap) ==
  [tokens |-> Min(cap * TicksPerSecond, l.tokens + (t - l.lastRefill) * cap),
   lastRefill |-> t]

\* Math.ceil((1 - tokens) / refillRate), in ticks
waitTime(tokens, cap) == (TicksPerSecond - tokens + cap - 1) \div cap

\* One invocation of acquire() up to its return or its sleep:
\* [rl afterwards, ret: a token was taken, wait: the sleep asked for]
acquire(l, t, cap) ==
  LET f == refill(l, t, cap) IN
  IF f.tokens >= TicksPerSecond
  THEN [rl |-> [f EXCEPT !.tokens = f.tokens - TicksPerSecond], ret |-> TRUE, wait |-> 0]
  ELSE [rl |-> f, ret |-> FALSE, wait |-> waitTime(f.tokens, cap)]

NoBurst == [start |-> NoTime, count |-> 0]
\* returned is history: the time acquire() returned at
IdleCaller ==
  [pc |-> "idle", wakeAt |-> 0, rank |-> 0, called |-> 0, slept |-> 0, returned |-> NoTime]

\* History of the calls: an invocation that finds the bucket full starts a burst,
\* every invocation at the tick of the burst counts in it
BurstAfter(l, t, cap) ==
  IF refill(l, t, cap).tokens >= cap * TicksPerSecond THEN [start |-> t, count |-> 1]
  ELSE IF burst.start = t THEN [burst EXCEPT !.count = burst.count + 1]
  ELSE burst

RankIn(b, t) == IF b.start = t THEN b.count ELSE 0

LimiterUnused ==
  /\ capacity = 1
  /\ rl = NewLimiter(1, 0)
  /\ acq = [p \in Callers |-> IdleCaller]
  /\ burst = NoBurst

\* ------------------------------------------------- PolymarketAPI.request
Reqs == {"r1", "r2"}   \* concurrent calls of request()

\* What executeRequest() settles with: 200 resolves; a status >= 400 rejects with
\* error.statusCode; 0 is a rejection without statusCode (socket error, timeout)
Statuses == {200, 400, 401, 403, 404, 500, 0}

MaxDelayFactor == 30    \* config.maxDelay / config.baseDelay = 30000 / 1000
MaxDelay == MaxDelayFactor * BaseDelay

RECURSIVE Pow2(_)
Pow2(n) == IF n = 0 THEN 1 ELSE 2 * Pow2(n - 1)

\* calculateDelay(attempt), with the jitter drawn
calculateDelay(attempt, jitter) == Min(BaseDelay * Pow2(attempt) + jitter, MaxDelay)

\* "Don't retry on certain errors": any 4xx
NoRetry_Any4xx(status) == status >= 400 /\ status < 500

\* "Don't retry on certain errors": the statuses the catch branch rethrows at once
NoRetry(status) == status = 400 \/ status = 401 \/ status = 403

\* The loop of request() running on without the test attempt <= maxRetries
MoreAttempts_NoBound(attempt, mr) == TRUE

\* for (attempt = 0; attempt <= maxRetries; attempt++): another iteration follows
MoreAttempts(attempt, mr) == attempt < mr

\* pc: idle | rlsleep (in rateLimiter.acquire's sleep) | exec (executeRequest in
\* flight) | backoff (in sleep(delay)) | returned | thrown
\* attempt, lastError: the locals of request(); an error is named by the attempt
\* (1, 2, ...) whose rejection it is, 0 is undefined.  circuitOpen: error.circuitOpen
\* of the error thrown; thrownErr: the error thrown; result: the attempt whose
\* value was returned.
\* History: nAtt executeRequest() calls made; okAt the first attempt that
\* resolved; recEach: every attempt rejected without a status or with a 5xx had
\* exactly one recordFailure(); cliSeen: an attempt was rejected with a 4xx;
\* cliRec: recordFailure() was called for a 4xx rejection; cliRetried: an attempt
\* was started after a 4xx rejection.
\* endpoint, nextAttempt: error.endpoint and the time the message of a
\* circuit-open error names.
IdleReq ==
  [pc |-> "idle", g |-> "gamma", attempt |-> 0, lastError |-> 0, wakeAt |-> 0,
   circuitOpen |-> FALSE, endpoint |-> "none", nextAttempt |-> NoTime,
   thrownErr |-> 0, result |-> 0,
   nAtt |-> 0, okAt |-> 0, recEach |-> TRUE,
   cliSeen |-> FALSE, cliRec |-> FALSE, cliRetried |-> FALSE]

\* new AuditLogger(config.auditLog)
NewAudit(enabled) == [enabled |-> enabled, logs |-> <<>>, appended |-> 0]

\* AuditLogger.log() keeping every entry
log_NoTrim(a, entry) ==
  IF ~a.enabled THEN a
  ELSE [a EXCEPT !.logs = Append(a.logs, entry), !.appended = @ + 1]

\* AuditLogger.log(): nothing when disabled; push, and over maxLogs keep
\* logs.slice(-maxLogs / 2)
log(a, entry) ==
  IF ~a.enabled THEN a
  ELSE LET pushed == Append(a.logs, entry) IN
       [a EXCEPT !.logs = IF Len(pushed) > MaxLogs
                          THEN SubSeq(pushed, Len(pushed) - (MaxLogs \div 2) + 1, Len(pushed))
                          ELSE pushed,
                 !.appended = @ + 1]

\* request() rejected by the breaker throws before rateLimiter.acquire(): the
\* limiter with acquire() called first
failFast_AfterAcquire(l, t, cap) == acquire(l, t, cap).rl

\* request() rejected by the breaker throws before rateLimiter.acquire(): the
\* limiter is as it was
failFast(l, t, cap) == l

RequestUnused ==
  /\ maxRetries = 0
  /\ req = [r \in Reqs |-> IdleReq]
  /\ audit = NewAudit(FALSE)

\* ----------------------------------------------- PolymarketAPI.getCached
Keys == {"k1", "k2"}
CCallers == {"c1", "c2", "c3"}   \* concurrent calls of getCached()
FetchIds == 1..MaxFetches
TTLs == {0, CacheTTL}            \* the ttl argument of a call

NoEntry == [has |-> FALSE, data |-> 0, timestamp |-> 0]
NoFetch == [key |-> "k1", st |-> "none"]
IdleCCaller ==
  [pc |-> "idle", key |-> "k1", awaiting |-> 0, value |-> 0, joined |-> 0, started |-> FALSE]

\* getCached() that never looks at pendingRequests
getCachedPath_NoJoin(c, pend, k, ttl, t) ==
  IF c[k].has /\ t - c[k].timestamp < ttl THEN "hit" ELSE "fetch"

\* The branch getCached(key, fetchFn, ttl) takes: a fresh entry is returned, a
\* pending promise is returned, or fetchFn() is invoked
getCachedPath(c, pend, k, ttl, t) ==
  IF c[k].has /\ t - c[k].timestamp < ttl THEN "hit"
  ELSE IF pend[k] # 0 THEN "join"
  ELSE "fetch"

\* History: the fetchFn() promise for key k that is unsettled, 0 for none
InFlight(k) ==
  IF \E f \in FetchIds : fetches[f].st = "inflight" /\ fetches[f].key = k
  THEN CHOOSE f \in FetchIds : fetches[f].st = "inflight" /\ fetches[f].key = k
  ELSE 0

\* The catch branch of getCached() without pendingRequests.delete(key)
clearPending_Kept(pend, k) == pend

\* The catch branch of getCached(): this.pendingRequests.delete(key)
clearPending(pend, k) == [pend EXCEPT ![k] = 0]

NextFetch == CHOOSE f \in FetchIds : fetches[f].st = "none" /\ \A e \in 1..(f - 1) : fetches[e].st # "none"

\* ----------------------------------------- cacheMiddleware (packages/api)
HttpKeys == {"p1", "p2"}          \* cache keys: generateCacheKey(req)
HttpReqs == {"g1", "g2", "g3"}    \* GET requests; a marker is named after the request that registers it
NoData == 0                       \* null, the cache's undefined
HandlerData == 1                  \* body.data of a handler's success response

\* reqs: pc idle | handling (next() called, the handler has not answered) |
\* waiting (awaiting a marker's promise) | responded; xcache, success, data:
\* the response. History: stale, the request that registered the marker
\* this request awaited had already answered when this request arrived
IdleHttpReq ==
  [pc |-> "idle", key |-> "p1", awaiting |-> "none", xcache |-> "none", success |-> FALSE,
   data |-> NoData, stale |-> FALSE]

\* store: the node-cache; pending: pendingRequests, key -> marker;
\* promise: marker -> none | polling | data | null (what it resolved with)
NewMiddleware ==
  [store |-> [k \in HttpKeys |-> NoData], pending |-> [k \in HttpKeys |-> "none"],
   promise |-> [r \in HttpReqs |-> "none"], reqs |-> [r \in HttpReqs |-> IdleHttpReq]]

\* res.json of the stampede branch: { success: true, data: result }
StampedeResponse(q, result) ==
  [q EXCEPT !.pc = "responded", !.xcache = "HIT-STAMPEDE", !.success = TRUE, !.data = result]

\* The overridden res.json on a body with success and data:
\* pendingRequests.delete(cacheKey)
deletePending(pending, k) == [pending EXCEPT ![k] = "none"]

\* The overridden res.json(body): what it does to the store and the markers
resJson(m, k, success, data) ==
  IF success /\ data # NoData
  THEN [m EXCEPT !.store[k] = data, !.pending = deletePending(m.pending, k)]
  ELSE m

CacheUnused ==
  /\ cache = [k \in Keys |-> NoEntry]
  /\ pendingRequests = [k \in Keys |-> 0]
  /\ fetches = [f \in FetchIds |-> NoFetch]
  /\ cc = [c \in CCallers |-> IdleCCaller]
  /\ mw = NewMiddleware

\* ------------------------------------------------ PolymarketAPI.calculatePnL
\* Prices are in cents (0.30 is 30); a quotient is kept exact, as the pair
\* [n, d] of a numerator and a positive denominator
RECURSIVE Gcd(_, _)
Gcd(a, b) == IF b = 0 THEN a ELSE Gcd(b, a % b)
Abs(x) == IF x < 0 THEN -x ELSE x
Rat(n, d) ==
  LET g == Gcd(Abs(n), Abs(d)) IN
  IF d < 0 THEN [n |-> (-n) \div g, d |-> (-d) \div g] ELSE [n |-> n \div g, d |-> d \div g]
RatOfPrice(cents) == Rat(cents, 100)
RatDiv(a, b) == Rat(a.n * b.d, a.d * b.n)
RatMul(a, b) == Rat(a.n * b.n, a.d * b.d)
RatSub(a, b) == Rat(a.n * b.d - b.n * a.d, a.d * b.d)
RatEq(a, b) == a.n * b.d = b.n * a.d

\* Number.prototype.toFixed(2), in hundredths: the nearest, halves away from 0
ToFixed2(a) ==
  IF a.n >= 0 THEN (2 * 100 * a.n + a.d) \div (2 * a.d)
  ELSE -((2 * 100 * (-a.n) + a.d) \div (2 * a.d))

Sides == {"YES", "NO"}
NoPnL == [pnl |-> Rat(0, 1), pnlPercent |-> 0, currentValue |-> Rat(0, 1), entryValue |-> 0]

\* calculatePnL() with the NO branch on the YES prices
calculatePnL_NoAsYes(entryPrice, currentPrice, position, amount) ==
  LET shares == RatDiv(Rat(amount, 1), RatOfPrice(entryPrice))
      currentValue == RatMul(shares, RatOfPrice(currentPrice))
      pnl == RatSub(currentValue, Rat(amount, 1)) IN
  [pnl |-> pnl, pnlPercent |-> ToFixed2(RatMul(RatDiv(pnl, Rat(amount, 1)), Rat(100, 1))),
   currentValue |-> currentValue, entryValue |-> amount]

\* static calculatePnL(entryPrice, currentPrice, position, amount)
calculatePnL(entryPrice, currentPrice, position, amount) ==
  IF position = "YES"
  THEN LET shares == RatDiv(Rat(amount, 1), RatOfPrice(entryPrice))
           currentValue == RatMul(shares, RatOfPrice(currentPrice))
           pnl == RatSub(currentValue, Rat(amount, 1)) IN
       [pnl |-> pnl, pnlPercent |-> ToFixed2(RatMul(RatDiv(pnl, Rat(amount, 1)), Rat(100, 1))),
        currentValue |-> currentValue, entryValue |-> amount]
  ELSE LET entryNoPrice == 100 - entryPrice
           currentNoPrice == 100 - currentPrice
           shares == RatDiv(Rat(amount, 1), RatOfPrice(entryNoPrice))
           currentValue == RatMul(shares, RatOfPrice(currentNoPrice))
           pnl == RatSub(currentValue, Rat(amount, 1)) IN
       [pnl |-> pnl, pnlPercent |-> ToFixed2(RatMul(RatDiv(pnl, Rat(amount, 1)), Rat(100, 1))),
        currentValue |-> currentValue, entryValue |-> amount]

\* ------------------------------- performUpdate and checkAlertConditions
\* A field a position does not have (addPosition() sets neither
\* days_to_resolution nor liquidity); every comparison with it is false
Undefined == -1

\* The PRICE_MOVE rule of checkAlertConditions() on the price old of
\* oldPriceEntry (0 for none): priceChange = |currentPrice - old| / old * 100
\* against config.alertThreshold = 5 and 10
PriceMove(old, currentPrice) ==
  LET change == Abs(currentPrice - old) * 100 IN
  IF old > 0 /\ change >= 5 * old
  THEN <<[type |-> "PRICE_MOVE", severity |-> IF change >= 10 * old THEN "HIGH" ELSE "MEDIUM"]>>
  ELSE <<>>

\* checkAlertConditions(position, currentPrice, pnlData), with history the
\* prices of the samples of the last hour, oldest first: the alerts, in order
checkAlertConditions(position, currentPrice, pnlData, history) ==
  LET old == IF history = <<>> THEN 0 ELSE Head(history)
      days == position.days_to_resolution
      liq == position.liquidity IN
  PriceMove(old, currentPrice)
  \o (IF pnlData.pnlPercent >= 5000 THEN <<[type |-> "TAKE_PROFIT", severity |-> "HIGH"]>> ELSE <<>>)
  \o (IF pnlData.pnlPercent <= -3000 THEN <<[type |-> "STOP_LOSS", severity |-> "HIGH"]>> ELSE <<>>)
  \o (IF days # Undefined /\ days <= 7 /\ days > 0
      THEN <<[type |-> "TIME_DECAY", severity |-> "MEDIUM"]>> ELSE <<>>)
  \o (IF liq # Undefined /\ liq < 5000
      THEN <<[type |-> "LOW_LIQUIDITY", severity |-> "LOW"]>> ELSE <<>>)

\* performUpdate()'s try branch on the market data marketData: the price of
\* the held side, the PnL, the price sample, the alerts of the position as it
\* was passed in, and then the updated record
performUpdateFields(position, marketData, history) ==
  LET isYes == position.position = "YES"
      currentPrice == IF isYes THEN marketData.yes ELSE marketData.no
      pnlData == calculatePnL(position.entry_price, currentPrice, position.position,
                              position.amount)
      history2 == Append(history, currentPrice)
      alerts == checkAlertConditions(position, currentPrice, pnlData, history2) IN
  [position |-> [position EXCEPT !.current_price = currentPrice,
                                 !.unrealized_pnl_pct = pnlData.pnlPercent,
                                 !.days_to_resolution = marketData.days,
                                 !.liquidity = marketData.liquidity],
   alerts |-> alerts, history |-> history2]

\* trackPriceHistory(): the while loop shifting the entries older than cutoff
\* off the front
RECURSIVE ShiftOld(_, _)
ShiftOld(history, cutoff) ==
  IF history # <<>> /\ Head(history).timestamp < cutoff
  THEN ShiftOld(Tail(history), cutoff)
  ELSE history

\* trackPriceHistory(marketKey, currentPrice) at time t on the history of
\* the market: push, splice to the newest maxPriceHistory, shift the entries
\* older than an hour
trackPriceHistory(history, currentPrice, t) ==
  LET pushed == Append(history, [price |-> currentPrice, timestamp |-> t])
      sized == IF Len(pushed) > MaxPriceHistory
               THEN SubSeq(pushed, Len(pushed) - MaxPriceHistory + 1, Len(pushed))
               ELSE pushed IN
  ShiftOld(sized, t - HourTicks)

\* checkAlertConditions(): history.find(h => h.timestamp >= oneHourAgo), as
\* its price, 0 for undefined
oldPriceEntry(history, t) ==
  LET in == {i \in 1..Len(history) : history[i].timestamp >= t - HourTicks} IN
  IF in = {} THEN 0 ELSE history[CHOOSE i \in in : \A j \in in : i <= j].price

\* ----------------------------------- AlertManager and WebhookDispatcher
\* generateFingerprint(): the md5 of "market key:type:severity"; the model
\* names the fingerprints
Fingerprints == {"f1", "f2"}
Pipes == {"u1", "u2"}                 \* calls of processAlerts()
WebhookUrls == {"w1", "w2"}           \* config.webhookUrls
Deliveries == {"2xx", "non2xx", "error", "timeout", "invalidUrl"}

\* shouldSendAlert() with the window test inverted
shouldSend_Inside(lastSent, t) == lastSent = NoTime \/ lastSent = 0 \/ (t - lastSent) <= DedupWindow

\* shouldSendAlert(): !lastSent || (now - lastSent) > this.deduplicationWindow
shouldSend(lastSent, t) == lastSent = NoTime \/ lastSent = 0 \/ (t - lastSent) > DedupWindow

\* shouldSendAlert() answering shouldSend without alertHistory.set()
setLastSent_Skipped(hist, fp, t) == hist

\* shouldSendAlert(): this.alertHistory.set(fingerprint, now), in the same
\* synchronous run as the test
setLastSent(hist, fp, t) == [hist EXCEPT ![fp] = t]

\* cleanup() deleting every entry of an earlier time
cleanup_Any(hist, t) ==
  [fp \in DOMAIN hist |-> IF hist[fp] # NoTime /\ t - hist[fp] > 0 THEN NoTime ELSE hist[fp]]

\* cleanup(): deletes the entries with now - timestamp > 2 * deduplicationWindow
cleanup(hist, t) ==
  [fp \in DOMAIN hist |->
     IF hist[fp] # NoTime /\ t - hist[fp] > DedupWindow * 2 THEN NoTime ELSE hist[fp]]

\* recordAlert() without the trim
recordAlert_NoTrim(alerts, fp, t) == Append(alerts, [fingerprint |-> fp, timestamp |-> t])

\* recordAlert(): push, then trim to the newest maxAlertsInMemory / 2
recordAlert(alerts, fp, t) ==
  LET pushed == Append(alerts, [fingerprint |-> fp, timestamp |-> t]) IN
  IF Len(pushed) > MaxAlertsInMemory
  THEN SubSeq(pushed, Len(pushed) - (MaxAlertsInMemory \div 2) + 1, Len(pushed))
  ELSE pushed

\* sendWebhook(): resolves on a 2xx response, rejects otherwise
sendWebhook(delivery) == IF delivery = "2xx" THEN "resolved" ELSE "rejected"

\* dispatch() awaiting Promise.all in place of Promise.allSettled
dispatch_All(hooks) ==
  IF \E u \in WebhookUrls : hooks[u] = "rejected" THEN "rejected" ELSE "fulfilled"

\* dispatch(): awaits Promise.allSettled over the sendWebhook() promises,
\* which fulfils whatever they did, and logs the rejected ones
dispatch(hooks) == "fulfilled"

\* sent and failed are history: the alerts this call of processAlerts() has
\* recorded, and whether a delivery of this call was rejected
IdlePipe ==
  [pc |-> "idle", raw |-> <<>>, cur |-> "none", data |-> <<>>,
   hooks |-> [u \in WebhookUrls |-> "none"], processed |-> <<>>,
   sent |-> <<>>, failed |-> FALSE]

\* The alert lists checkAlertConditions() may return: no fingerprint twice
RawAlerts ==
  {<<f>> : f \in Fingerprints} \cup
  {fg \in Fingerprints \X Fingerprints : fg[1] # fg[2]}

CalcUnused == calc = [fn |-> "none"]

AlertsUnused ==
  /\ CalcUnused
  /\ alertHistory = [f \in Fingerprints |-> NoTime]
  /\ persistedAlerts = <<>>
  /\ histFile = [alerts |-> <<>>, partial |-> FALSE, writers |-> 0]
  /\ enableWebhooks = FALSE
  /\ pipes = [p \in Pipes |-> IdlePipe]
  /\ sends = [f \in Fingerprints |-> <<>>]
  /\ ndisp = [f \in Fingerprints |-> 0]
  /\ badSuppress = FALSE

\* ---------------------------------------------------- LivePositionTracker
PositionIds == <<"p1", "p2", "p3">>   \* the positions of the file, in file order
NewIds == {"p4"}                      \* the ids addPosition() generates
LockKeys == {"p1", "p2", "p3", "p4"}
Ops == {"add", "close"}               \* calls of addPosition() and of closePosition()
Batches == {"b1", "b2"}               \* calls of updateAllPositions(), in call order
CallIds == 1..Max(MaxCalls, MaxPollCalls)
DirectTargets == {"p1"}               \* the positions updatePosition() is called on directly

\* A position: status, the market data of its last refresh (rev), whether it
\* carries update_error (err), and last_updated (lu)
NewPosition(id, status) == [id |-> id, status |-> status, rev |-> 0, err |-> FALSE, lu |-> 0]
NoPosition == NewPosition("none", "none")

\* const lockKey = position.id || position.market
lockKey(pos) == pos.id

\* performUpdate()'s try branch: { ...position, <market data>, last_updated }
performUpdateOk(pos, data, t) == [pos EXCEPT !.rev = data, !.lu = t]

\* performUpdate()'s catch branch dropping the position's fields
performUpdateErr_Bare(pos, t) == [NoPosition EXCEPT !.id = pos.id, !.err = TRUE, !.lu = t]

\* performUpdate()'s catch branch: { ...position, update_error, last_updated }
performUpdateErr(pos, t) == [pos EXCEPT !.err = TRUE, !.lu = t]

\* updatePosition() that never finds the key locked
heldBy_Never(locks, key) == 0

\* this.updateLocks.has(lockKey) ? this.updateLocks.get(lockKey) : none
heldBy(locks, key) == locks[key]

FreeCall ==
  [pc |-> "free", pos |-> NoPosition, owner |-> "none", waitOn |-> 0, result |-> NoPosition,
   ok |-> FALSE, found |-> 0, ranOwn |-> FALSE]

\* updatePosition(position) up to its first await, on st = [upc, locks, n]: with
\* the key locked it awaits the registered promise; otherwise performUpdate()
\* starts and its promise is registered
updatePosition(st, pos, owner) ==
  LET c == st.n + 1
      key == lockKey(pos)
      held == heldBy(st.locks, key) IN
  IF held # 0
  THEN [upc |-> [st.upc EXCEPT ![c] =
                   [FreeCall EXCEPT !.pc = "waiting", !.pos = pos, !.owner = owner,
                                    !.waitOn = held, !.found = st.locks[key]]],
        locks |-> st.locks, n |-> c]
  ELSE [upc |-> [st.upc EXCEPT ![c] =
                   [FreeCall EXCEPT !.pc = "running", !.pos = pos, !.owner = owner,
                                    !.found = st.locks[key], !.ranOwn = TRUE]],
        locks |-> [st.locks EXCEPT ![key] = c], n |-> c]

\* batch.map(p => this.updatePosition(p)): the calls of one wave, in order
RECURSIVE startWave(_, _, _)
startWave(st, poss, owner) ==
  IF poss = <<>> THEN st
  ELSE startWave(updatePosition(st, Head(poss), owner), Tail(poss), owner)

\* A call resumes from await this.updateLocks.get(lockKey): performUpdate()
\* starts and its promise is registered (the lock is not looked at again)
resumeWaiter(st, w) ==
  [upc |-> [st.upc EXCEPT ![w] = [@ EXCEPT !.pc = "running", !.waitOn = 0, !.ranOwn = TRUE]],
   locks |-> [st.locks EXCEPT ![lockKey(st.upc[w].pos)] = w], n |-> st.n]

\* The calls awaiting call c's promise resume in the order they began to wait
RECURSIVE resumeWaiters(_, _, _)
resumeWaiters(st, c, w) ==
  IF w \notin CallIds THEN st
  ELSE resumeWaiters(
         IF st.upc[w].pc = "waiting" /\ st.upc[w].waitOn = c THEN resumeWaiter(st, w) ELSE st,
         c, w + 1)

\* updatedPositions.push(...positions.filter(p => p.status !== 'active'))
withNonActive(updated, loaded) ==
  updated \o SelectSeq(loaded, LAMBDA p : p.status # "active")

IdleBatch ==
  [pc |-> "idle", loaded |-> <<>>, active |-> <<>>, i |-> 0, updated |-> <<>>,
   wave |-> <<>>, toSave |-> <<>>, returned |-> <<>>, calls |-> <<>>, waves |-> 0]

\* The loop of updateAllPositions() from the top of an iteration, for batch
\* record q on st: the next wave's calls, or after the last wave the snapshot
\* handed to savePositions()
nextWave(q, st, b) ==
  IF q.i < Len(q.active)
  THEN LET poss == SubSeq(q.active, q.i + 1, Min(q.i + ConcurrentUpdates, Len(q.active)))
           st2 == startWave(st, poss, b)
           ids == [j \in 1..Len(poss) |-> st.n + j] IN
       [q |-> [q EXCEPT !.pc = "wave", !.wave = ids, !.calls = @ \o ids, !.waves = @ + 1],
        st |-> st2]
  ELSE [q |-> [q EXCEPT !.pc = "writing", !.wave = <<>>,
                        !.toSave = withNonActive(q.updated, q.loaded)],
        st |-> st]

IdleOp == [pc |-> "idle", toSave |-> <<>>, ret |-> NoPosition]

\* The files of the disk are named by the save that writes them
PositionsPath == [tmp |-> "none"]

\* savePositions() writing the positions file in place
tempPath_InPlace(w) == PositionsPath

\* const tempPath = positionsPath + '.tmp.' + Date.now() + '.' + random
tempPath(w) == [tmp |-> w]

\* The files whose fs.writeFile has begun and is not complete
PartialPaths ==
  {tempPath(w) : w \in {b \in Batches : bat[b].pc = "writing"} \cup
                        {o \in Ops : ops[o].pc = "writing"}}

\* loadPositions(): the positions of the file, [] when it does not parse
loadPositions == IF PositionsPath \in PartialPaths THEN <<>> ELSE file

\* p.market of a position: every position of the model is on its own market
Market(pos) == pos.id

\* addPosition() between its load and its save
addPosition(positions, id, t) ==
  Append(positions, [NewPosition(id, "active") EXCEPT !.lu = t])

\* closePosition() between its load and its save: the first active position
\* on the market is closed; none found is an error
closePosition(positions, market, t) ==
  LET found == {j \in 1..Len(positions) :
                  Market(positions[j]) = market /\ positions[j].status = "active"} IN
  IF found = {} THEN [found |-> FALSE, positions |-> positions, ret |-> NoPosition]
  ELSE LET j == CHOOSE j \in found : \A k \in found : j <= k
           closed == [positions[j] EXCEPT !.status = "closed", !.lu = t] IN
       [found |-> TRUE, positions |-> [positions EXCEPT ![j] = closed], ret |-> closed]

\* Calls of startAutoUpdate(); the interval timer a call creates is named
\* after the call
StartCalls == {"s1", "s2"}

\* intervalId: the timer recorded in this.intervalId, "null" for none;
\* timers: none | active | cleared; starts: idle | loading (awaiting
\* loadHistory) | updating (awaiting the initial updateAllPositions) | done;
\* running: the cycles started by a timer that are in flight.
\* History: stopped: stopAutoUpdate() has returned and startAutoUpdate() has
\* not been called since; fired: the cycles timers have started
NoTimer ==
  [intervalId |-> "null", timers |-> [s \in StartCalls |-> "none"],
   starts |-> [s \in StartCalls |-> "idle"], running |-> 0, stopped |-> FALSE, fired |-> 0]

\* clearInterval(id)
clearInterval(timers, id) ==
  [s \in StartCalls |-> IF s = id /\ timers[s] = "active" THEN "cleared" ELSE timers[s]]

LifeUnused ==
  /\ ops = [o \in Ops |-> IdleOp]
  /\ proc = "up"
  /\ recovered = <<>>
  /\ timer = NoTimer

TrackerUnused ==
  /\ AlertsUnused
  /\ LifeUnused
  /\ file = <<>>
  /\ updateLocks = [k \in LockKeys |-> 0]
  /\ upc = [c \in CallIds |-> FreeCall]
  /\ nCalls = 0
  /\ bat = [b \in Batches |-> IdleBatch]

\* ------------------------------------------- breaker-only specification
NoOp == [op |-> "none", g |-> "gamma", ret |-> TRUE, emit |-> "none",
         pre |-> NewBreaker(0)]

NoStreak == [n |-> 0, at |-> NoTime]

\* History of the calls: one more failure since the last success, at time t
StreakFailure(s, t, th) ==
  [n |-> s.n + 1, at |-> IF s.n + 1 = th THEN t ELSE s.at]

InitBreaker ==
  /\ now = 0
  /\ threshold \in 1..MaxThreshold
  /\ cb = [g \in Groups |-> NewBreaker(0)]
  /\ lastOp = NoOp
  /\ streak = [g \in Groups |-> NoStreak]
  /\ LimiterUnused
  /\ RequestUnused
  /\ CacheUnused
  /\ TrackerUnused

Tick ==
  /\ now < MaxTime
  /\ now' = now + 1
  /\ lastOp' = NoOp
  /\ UNCHANGED <<threshold, cb, streak, limiterVars, requestVars, cacheVars, trackerVars, alertVars, calc>>

CallCanExecute(g) ==
  LET r == canExecute(cb[g], now) IN
  /\ cb' = [cb EXCEPT ![g] = r.cb]
  /\ lastOp' = [op |-> "canExecute", g |-> g, ret |-> r.ret,
                emit |-> r.emit, pre |-> cb[g]]
  /\ UNCHANGED <<now, threshold, streak, limiterVars, requestVars, cacheVars, trackerVars, alertVars, calc>>

CallRecordSuccess(g) ==
  LET r == recordSuccess(cb[g]) IN
  /\ cb' = [cb EXCEPT ![g] = r.cb]
  /\ lastOp' = [op |-> "recordSuccess", g |-> g, ret |-> TRUE,
                emit |-> r.emit, pre |-> cb[g]]
  /\ streak' = [streak EXCEPT ![g] = NoStreak]
  /\ UNCHANGED <<now, threshold, limiterVars, requestVars, cacheVars, trackerVars, alertVars, calc>>

CallRecordFailure(g) ==
  LET r == recordFailure(cb[g], now, threshold) IN
  /\ cb[g].failures < MaxFailures
  /\ cb' = [cb EXCEPT ![g] = r.cb]
  /\ lastOp' = [op |-> "recordFailure", g |-> g, ret |-> TRUE,
                emit |-> r.emit, pre |-> cb[g]]
  /\ streak' = [streak EXCEPT ![g] = StreakFailure(streak[g], now, threshold)]
  /\ UNCHANGED <<now, threshold, limiterVars, requestVars, cacheVars, trackerVars, alertVars, calc>>

NextBreaker ==
  \/ Tick
  \/ \E g \in Groups : CallCanExecute(g)
  \/ \E g \in Groups : CallRecordSuccess(g)
  \/ \E g \in Groups : CallRecordFailure(g)

SpecBreaker == InitBreaker /\ [][NextBreaker]_vars

\* ------------------------------------------- limiter-only specification
InitLimiter ==
  /\ now = 0
  /\ capacity \in 1..MaxCapacity
  /\ rl = NewLimiter(capacity, 0)
  /\ acq = [p \in Callers |-> IdleCaller]
  /\ burst = NoBurst
  /\ threshold = 1
  /\ cb = [g \in Groups |-> NewBreaker(0)]
  /\ lastOp = NoOp
  /\ streak = [g \in Groups |-> NoStreak]
  /\ RequestUnused
  /\ CacheUnused
  /\ TrackerUnused

TickLimiter ==
  /\ now < MaxTime
  /\ now' = now + 1
  /\ UNCHANGED <<breakerVars, limiterVars, requestVars, cacheVars, trackerVars, alertVars, calc>>

\* A caller calls acquire()
CallAcquire(p) ==
  LET a == acquire(rl, now, capacity)
      b == BurstAfter(rl, now, capacity) IN
  /\ acq[p].pc = "idle"
  /\ rl' = a.rl
  /\ burst' = b
  /\ acq' = [acq EXCEPT ![p] =
       [pc |-> IF a.ret THEN "done" ELSE "sleeping", wakeAt |-> now + a.wait,
        rank |-> RankIn(b, now), called |-> now, slept |-> a.wait,
        returned |-> IF a.ret THEN now ELSE NoTime]]
  /\ UNCHANGED <<now, capacity, breakerVars, requestVars, cacheVars, trackerVars, alertVars, calc>>

\* The sleep of a caller ends (a timer fires at or after its time): return this.acquire()
WakeAcquire(p) ==
  LET a == acquire(rl, now, capacity)
      b == BurstAfter(rl, now, capacity) IN
  /\ acq[p].pc = "sleeping"
  /\ now >= acq[p].wakeAt
  /\ rl' = a.rl
  /\ burst' = b
  /\ acq' = [acq EXCEPT ![p] =
       [@ EXCEPT !.pc = IF a.ret THEN "done" ELSE "sleeping", !.wakeAt = now + a.wait,
                 !.slept = @ + a.wait, !.returned = IF a.ret THEN now ELSE NoTime]]
  /\ UNCHANGED <<now, capacity, breakerVars, requestVars, cacheVars, trackerVars, alertVars, calc>>

NextLimiter ==
  \/ TickLimiter
  \/ \E p \in Callers : CallAcquire(p)
  \/ \E p \in Callers : WakeAcquire(p)

SpecLimiter == InitLimiter /\ [][NextLimiter]_vars

\* ------------------------------------------------ request specification
InitRequest ==
  /\ now = 0
  /\ threshold \in 1..MaxThreshold
  /\ cb = [g \in Groups |-> NewBreaker(0)]
  /\ lastOp = NoOp
  /\ streak = [g \in Groups |-> NoStreak]
  /\ capacity \in 1..MaxCapacity
  /\ rl = NewLimiter(capacity, 0)
  /\ acq = [p \in Callers |-> IdleCaller]
  /\ burst = NoBurst
  /\ maxRetries \in 0..MaxRetriesMax
  /\ req = [r \in Reqs |-> IdleReq]
  /\ audit = NewAudit(FALSE)
  /\ CacheUnused
  /\ TrackerUnused

TickRequest ==
  /\ now < MaxTimeReq
  /\ now' = now + 1
  /\ UNCHANGED <<breakerVars, limiterVars, requestVars, cacheVars, trackerVars, alertVars, calc>>

\* request(base, ...) is called: canExecute(), then rateLimiter.acquire(), and
\* with a token in hand the loop's first executeRequest()
CallRequest(r, g) ==
  LET c == canExecute(cb[g], now)
      a == acquire(rl, now, capacity) IN
  /\ req[r].pc = "idle"
  /\ cb' = [cb EXCEPT ![g] = c.cb]
  /\ IF ~c.ret
     THEN /\ req' = [req EXCEPT ![r] = [@ EXCEPT !.pc = "thrown", !.g = g, !.circuitOpen = TRUE,
                                                   !.endpoint = g,
                                                   !.nextAttempt = c.cb.nextAttempt]]
          /\ rl' = failFast(rl, now, capacity)
     ELSE /\ rl' = a.rl
          /\ req' = [req EXCEPT ![r] =
               IF a.ret
               THEN [@ EXCEPT !.pc = "exec", !.g = g, !.attempt = 0, !.nAtt = 1]
               ELSE [@ EXCEPT !.pc = "rlsleep", !.g = g, !.wakeAt = now + a.wait]]
  /\ UNCHANGED <<now, threshold, lastOp, streak, capacity, acq, burst, maxRetries, audit, cacheVars, trackerVars, alertVars, calc>>

\* The limiter's sleep ends: acquire() again, and with a token the first executeRequest()
WakeRequest(r) ==
  LET a == acquire(rl, now, capacity) IN
  /\ req[r].pc = "rlsleep"
  /\ now >= req[r].wakeAt
  /\ rl' = a.rl
  /\ req' = [req EXCEPT ![r] =
       IF a.ret
       THEN [@ EXCEPT !.pc = "exec", !.attempt = 0, !.nAtt = 1, !.wakeAt = 0]
       ELSE [@ EXCEPT !.wakeAt = now + a.wait]]
  /\ UNCHANGED <<now, breakerVars, capacity, acq, burst, maxRetries, audit, cacheVars, trackerVars, alertVars, calc>>

\* executeRequest() resolves: recordSuccess(), return result
RespondOk(r) ==
  LET g == req[r].g IN
  /\ req[r].pc = "exec"
  /\ cb' = [cb EXCEPT ![g] = recordSuccess(cb[g]).cb]
  /\ req' = [req EXCEPT ![r] =
       [@ EXCEPT !.pc = "returned", !.result = req[r].attempt + 1,
                 !.okAt = IF @ = 0 THEN req[r].nAtt ELSE @]]
  /\ audit' = log(audit, [event |-> "API_REQUEST_SUCCESS", endpoint |-> g,
                          attempt |-> req[r].attempt + 1])
  /\ UNCHANGED <<now, threshold, lastOp, streak, limiterVars, maxRetries, cacheVars, trackerVars, alertVars, calc>>

\* executeRequest() rejects with status: the catch branch, up to the throw or the
\* backoff sleep
RespondError(r, status, jitter) ==
  LET g == req[r].g
      q == req[r]
      cli == status >= 400 /\ status < 500
      counted == ~NoRetry(status)
      more == MoreAttempts(q.attempt, maxRetries)
      h == [q EXCEPT !.lastError = q.nAtt,
                     !.cliSeen = @ \/ cli,
                     !.cliRec = @ \/ (cli /\ counted),
                     !.recEach = @ /\ (cli \/ counted)] IN
  /\ q.pc = "exec"
  /\ status # 200
  /\ IF ~counted
     THEN /\ req' = [req EXCEPT ![r] = [h EXCEPT !.pc = "thrown", !.thrownErr = h.lastError]]
          /\ cb' = cb
          /\ audit' = audit
     ELSE /\ cb' = [cb EXCEPT ![g] = recordFailure(cb[g], now, threshold).cb]
          /\ req' = [req EXCEPT ![r] =
               IF more
               THEN [h EXCEPT !.pc = "backoff",
                              !.wakeAt = now + calculateDelay(q.attempt, jitter)]
               ELSE [h EXCEPT !.pc = "thrown", !.thrownErr = h.lastError]]
          /\ audit' =
               LET retry == log(audit, [event |-> "API_REQUEST_RETRY", endpoint |-> g,
                                        attempt |-> q.attempt + 1]) IN
               IF more THEN retry
               ELSE log(retry, [event |-> "API_REQUEST_FAILED", endpoint |-> g,
                                attempt |-> maxRetries + 1])
  /\ UNCHANGED <<now, threshold, lastOp, streak, limiterVars, maxRetries, cacheVars, trackerVars, alertVars, calc>>

\* sleep(delay) ends: attempt++, the next executeRequest()
Retry(r) ==
  /\ req[r].pc = "backoff"
  /\ now >= req[r].wakeAt
  /\ req' = [req EXCEPT ![r] =
       [@ EXCEPT !.pc = "exec", !.attempt = @ + 1, !.nAtt = @ + 1, !.wakeAt = 0,
                 !.cliRetried = @ \/ req[r].cliSeen]]
  /\ UNCHANGED <<now, breakerVars, limiterVars, maxRetries, audit, cacheVars, trackerVars, alertVars, calc>>

NextRequest ==
  \/ TickRequest
  \/ \E r \in Reqs, g \in Groups : CallRequest(r, g)
  \/ \E r \in Reqs : WakeRequest(r)
  \/ \E r \in Reqs : RespondOk(r)
  \/ \E r \in Reqs, status \in Statuses, jitter \in 0..MaxJitter : RespondError(r, status, jitter)
  \/ \E r \in Reqs : Retry(r)

SpecRequest == InitRequest /\ [][NextRequest]_vars

\* -------------------------------------------------- audit specification
\* request() with config.auditLog on, and one retry at most
InitAudit ==
  /\ now = 0
  /\ threshold \in 1..MaxThreshold
  /\ cb = [g \in Groups |-> NewBreaker(0)]
  /\ lastOp = NoOp
  /\ streak = [g \in Groups |-> NoStreak]
  /\ capacity \in 1..MaxCapacity
  /\ rl = NewLimiter(capacity, 0)
  /\ acq = [p \in Callers |-> IdleCaller]
  /\ burst = NoBurst
  /\ maxRetries \in {0, 1}
  /\ req = [r \in Reqs |-> IdleReq]
  /\ audit = NewAudit(TRUE)
  /\ CacheUnused
  /\ TrackerUnused

SpecAudit == InitAudit /\ [][NextRequest]_vars

\* -------------------------------------------------- cache specification
InitCache ==
  /\ now = 0
  /\ threshold = 1
  /\ cb = [g \in Groups |-> NewBreaker(0)]
  /\ lastOp = NoOp
  /\ streak = [g \in Groups |-> NoStreak]
  /\ LimiterUnused
  /\ RequestUnused
  /\ CacheUnused
  /\ TrackerUnused

TickCache ==
  /\ now < MaxTimeCache
  /\ now' = now + 1
  /\ UNCHANGED <<breakerVars, limiterVars, requestVars, cacheVars, trackerVars, alertVars, calc>>

\* getCached(k, fetchFn, ttl) is called
CallGetCached(c, k, ttl) ==
  LET path == getCachedPath(cache, pendingRequests, k, ttl, now)
      j == InFlight(k) IN
  /\ cc[c].pc = "idle"
  /\ CASE path = "hit" ->
            /\ cc' = [cc EXCEPT ![c] = [@ EXCEPT !.pc = "returned", !.key = k,
                                                  !.value = cache[k].data]]
            /\ UNCHANGED <<pendingRequests, fetches>>
       [] path = "join" ->
            /\ cc' = [cc EXCEPT ![c] = [@ EXCEPT !.pc = "waiting", !.key = k,
                                                  !.awaiting = pendingRequests[k],
                                                  !.joined = j]]
            /\ UNCHANGED <<pendingRequests, fetches>>
       [] path = "fetch" ->
            /\ \E f \in FetchIds : fetches[f].st = "none"
            /\ fetches' = [fetches EXCEPT ![NextFetch] = [key |-> k, st |-> "inflight"]]
            /\ pendingRequests' = [pendingRequests EXCEPT ![k] = NextFetch]
            /\ cc' = [cc EXCEPT ![c] = [@ EXCEPT !.pc = "waiting", !.key = k,
                                                  !.awaiting = NextFetch,
                                                  !.joined = j, !.started = TRUE]]
  /\ UNCHANGED <<now, cache, mw, breakerVars, limiterVars, requestVars, trackerVars, alertVars, calc>>

\* fetchFn()'s promise resolves: cache.set, pendingRequests.delete, return data
FetchResolve(f) ==
  LET k == fetches[f].key IN
  /\ fetches[f].st = "inflight"
  /\ fetches' = [fetches EXCEPT ![f].st = "resolved"]
  /\ cache' = [cache EXCEPT ![k] = [has |-> TRUE, data |-> f, timestamp |-> now]]
  /\ pendingRequests' = [pendingRequests EXCEPT ![k] = 0]
  /\ cc' = [c \in CCallers |->
              IF cc[c].pc = "waiting" /\ cc[c].awaiting = f
              THEN [cc[c] EXCEPT !.pc = "returned", !.value = f]
              ELSE cc[c]]
  /\ UNCHANGED <<now, mw, breakerVars, limiterVars, requestVars, trackerVars, alertVars, calc>>

\* fetchFn()'s promise rejects: pendingRequests.delete, throw err
FetchReject(f) ==
  LET k == fetches[f].key IN
  /\ fetches[f].st = "inflight"
  /\ fetches' = [fetches EXCEPT ![f].st = "rejected"]
  /\ pendingRequests' = clearPending(pendingRequests, k)
  /\ cc' = [c \in CCallers |->
              IF cc[c].pc = "waiting" /\ cc[c].awaiting = f
              THEN [cc[c] EXCEPT !.pc = "failed"]
              ELSE cc[c]]
  /\ UNCHANGED <<now, cache, mw, breakerVars, limiterVars, requestVars, trackerVars, alertVars, calc>>

NextCache ==
  \/ TickCache
  \/ \E c \in CCallers, k \in Keys, ttl \in TTLs : CallGetCached(c, k, ttl)
  \/ \E f \in FetchIds : FetchResolve(f)
  \/ \E f \in FetchIds : FetchReject(f)

SpecCache == InitCache /\ [][NextCache]_vars

\* clearCache(), also the third statement of destroy(): this.cache.clear();
\* this.pendingRequests.clear()
CallClearCache ==
  /\ cache' = [k \in Keys |-> NoEntry]
  /\ pendingRequests' = [k \in Keys |-> 0]
  /\ UNCHANGED <<now, fetches, cc, mw, breakerVars, limiterVars, requestVars, trackerVars, alertVars, calc>>

NextClear ==
  \/ TickCache
  \/ \E c \in CCallers, k \in Keys, ttl \in TTLs : CallGetCached(c, k, ttl)
  \/ \E f \in FetchIds : FetchResolve(f)
  \/ \E f \in FetchIds : FetchReject(f)
  \/ CallClearCache

\* getCached() with clearCache() called at any moment
SpecClear == InitCache /\ [][NextClear]_vars

\* ------------------------------------------- HTTP middleware specification
\* No request has reached the middleware
InitHttp == InitCache

\* A GET request reaches the middleware: a marker for the key is awaited; else
\* a cached value is the answer; else res.json is overridden, the marker is
\* registered and next() is called
CallGet(r, k) ==
  LET q == [mw.reqs[r] EXCEPT !.key = k]
      m == mw.pending[k] IN
  /\ mw.reqs[r].pc = "idle"
  /\ mw' =
       IF m # "none"
       THEN LET w == [q EXCEPT !.awaiting = m, !.stale = (mw.reqs[m].pc = "responded")] IN
            IF mw.promise[m] = "polling"
            THEN [mw EXCEPT !.reqs[r] = [w EXCEPT !.pc = "waiting"]]
            ELSE [mw EXCEPT !.reqs[r] =
                    StampedeResponse(w, IF mw.promise[m] = "data" THEN HandlerData ELSE NoData)]
       ELSE IF mw.store[k] # NoData
       THEN [mw EXCEPT !.reqs[r] = [q EXCEPT !.pc = "responded", !.xcache = "HIT",
                                             !.success = TRUE, !.data = mw.store[k]]]
       ELSE [mw EXCEPT !.reqs[r] = [q EXCEPT !.pc = "handling"],
                       !.promise[r] = "polling", !.pending[k] = r]
  /\ UNCHANGED <<now, cache, pendingRequests, fetches, cc, breakerVars, limiterVars, requestVars,
                 trackerVars, alertVars, calc>>

\* The route handler answers through the overridden res.json: a success with
\* data, or an error response (success: false)
HandlerRespond(r, success) ==
  LET q == mw.reqs[r]
      data == IF success THEN HandlerData ELSE NoData
      m == resJson(mw, q.key, success, data) IN
  /\ q.pc = "handling"
  /\ mw' = [m EXCEPT !.reqs[r] = [q EXCEPT !.pc = "responded",
                                           !.xcache = IF success THEN "MISS" ELSE "none",
                                           !.success = success, !.data = data]]
  /\ UNCHANGED <<now, cache, pendingRequests, fetches, cc, breakerVars, limiterVars, requestVars,
                 trackerVars, alertVars, calc>>

\* The requests awaiting marker p's promise answer with what it resolved with
resolvePromise(m, p, result) ==
  [m EXCEPT !.promise[p] = IF result = NoData THEN "null" ELSE "data",
            !.reqs = [r \in HttpReqs |->
                        IF m.reqs[r].pc = "waiting" /\ m.reqs[r].awaiting = p
                        THEN StampedeResponse(m.reqs[r], result)
                        ELSE m.reqs[r]]]

\* The 50 ms poll of marker p's promise finds the key cached: resolve(cached)
PollFindsCached(p) ==
  /\ mw.promise[p] = "polling"
  /\ mw.store[mw.reqs[p].key] # NoData
  /\ mw' = resolvePromise(mw, p, mw.store[mw.reqs[p].key])
  /\ UNCHANGED <<now, cache, pendingRequests, fetches, cc, breakerVars, limiterVars, requestVars,
                 trackerVars, alertVars, calc>>

\* The 10 s timeout of marker p's promise: resolve(null)
PromiseTimeout(p) ==
  /\ mw.promise[p] = "polling"
  /\ mw' = resolvePromise(mw, p, NoData)
  /\ UNCHANGED <<now, cache, pendingRequests, fetches, cc, breakerVars, limiterVars, requestVars,
                 trackerVars, alertVars, calc>>

\* The store's ttl of a key runs out
ExpireKey(k) ==
  /\ mw.store[k] # NoData
  /\ mw' = [mw EXCEPT !.store[k] = NoData]
  /\ UNCHANGED <<now, cache, pendingRequests, fetches, cc, breakerVars, limiterVars, requestVars,
                 trackerVars, alertVars, calc>>

NextHttp ==
  \/ \E r \in HttpReqs, k \in HttpKeys : CallGet(r, k)
  \/ \E r \in HttpReqs, success \in BOOLEAN : HandlerRespond(r, success)
  \/ \E p \in HttpReqs : PollFindsCached(p)
  \/ \E p \in HttpReqs : PromiseTimeout(p)
  \/ \E k \in HttpKeys : ExpireKey(k)

SpecHttp == InitHttp /\ [][NextHttp]_vars

\* ------------------------------------------------ tracker specification
PositionStatuses == {"active", "closed"}

InitTracker ==
  /\ now = 0
  /\ threshold = 1
  /\ cb = [g \in Groups |-> NewBreaker(0)]
  /\ lastOp = NoOp
  /\ streak = [g \in Groups |-> NoStreak]
  /\ LimiterUnused
  /\ RequestUnused
  /\ CacheUnused
  /\ \E ss \in [1..Len(PositionIds) -> PositionStatuses] :
       file = [j \in 1..Len(PositionIds) |-> NewPosition(PositionIds[j], ss[j])]
  /\ updateLocks = [k \in LockKeys |-> 0]
  /\ upc = [c \in CallIds |-> FreeCall]
  /\ nCalls = 0
  /\ bat = [b \in Batches |-> IdleBatch]
  /\ LifeUnused
  /\ AlertsUnused

TickTracker ==
  /\ now < MaxTimeTracker
  /\ now' = now + 1
  /\ UNCHANGED <<breakerVars, limiterVars, requestVars, cacheVars, trackerVars, alertVars, calc>>

TrackerState == [upc |-> upc, locks |-> updateLocks, n |-> nCalls]

\* updatePosition(position) is called directly with a position of the file
CallUpdatePosition(id) ==
  LET j == CHOOSE j \in 1..Len(file) : file[j].id = id
      st == updatePosition(TrackerState, file[j], "direct") IN
  /\ proc = "up"
  /\ nCalls < MaxCalls
  /\ upc' = st.upc
  /\ updateLocks' = st.locks
  /\ nCalls' = st.n
  /\ UNCHANGED <<now, file, bat, breakerVars, limiterVars, requestVars, cacheVars, lifeVars, alertVars, calc>>

\* A performUpdate() settles (it catches every error, so it always resolves);
\* its caller leaves through finally { updateLocks.delete(lockKey) }, then the
\* calls that awaited the promise resume
SettlePerformUpdate(c, ok, data) ==
  LET res == IF ok THEN performUpdateOk(upc[c].pos, data, now)
                   ELSE performUpdateErr(upc[c].pos, now)
      st1 == [upc |-> [upc EXCEPT ![c] = [@ EXCEPT !.pc = "done", !.result = res, !.ok = ok]],
              locks |-> [updateLocks EXCEPT ![lockKey(upc[c].pos)] = 0],
              n |-> nCalls]
      st2 == resumeWaiters(st1, c, 1) IN
  /\ proc = "up"
  /\ upc[c].pc = "running"
  /\ upc' = st2.upc
  /\ updateLocks' = st2.locks
  /\ UNCHANGED <<now, file, nCalls, bat, breakerVars, limiterVars, requestVars, cacheVars, lifeVars, alertVars, calc>>

\* updateAllPositions(): loadPositions() has read the file; the first wave
\* (limit: the updatePosition() calls the specification allows)
BeginUpdateAllWithin(b, limit) ==
  LET q == [IdleBatch EXCEPT !.loaded = loadPositions,
                             !.active = SelectSeq(loadPositions, LAMBDA p : p.status = "active")]
      nx == nextWave(q, TrackerState, b) IN
  /\ proc = "up"
  /\ bat[b].pc = "idle"
  /\ \A b0 \in Batches : (b0 = "b1" /\ b = "b2") => bat[b0].pc # "idle"
  /\ nx.st.n <= limit
  /\ bat' = [bat EXCEPT ![b] = nx.q]
  /\ upc' = nx.st.upc
  /\ updateLocks' = nx.st.locks
  /\ nCalls' = nx.st.n
  /\ UNCHANGED <<now, file, breakerVars, limiterVars, requestVars, cacheVars, lifeVars, alertVars, calc>>

BeginUpdateAll(b) == BeginUpdateAllWithin(b, MaxCalls)

\* Promise.all of the wave resolves: its results are pushed; the next wave
WaveDoneWithin(b, limit) ==
  LET q == [bat[b] EXCEPT
              !.updated = @ \o [j \in 1..Len(bat[b].wave) |-> upc[bat[b].wave[j]].result],
              !.i = @ + ConcurrentUpdates]
      nx == nextWave(q, TrackerState, b) IN
  /\ proc = "up"
  /\ bat[b].pc = "wave"
  /\ \A j \in 1..Len(bat[b].wave) : upc[bat[b].wave[j]].pc = "done"
  /\ nx.st.n <= limit
  /\ bat' = [bat EXCEPT ![b] = nx.q]
  /\ upc' = nx.st.upc
  /\ updateLocks' = nx.st.locks
  /\ nCalls' = nx.st.n
  /\ UNCHANGED <<now, file, breakerVars, limiterVars, requestVars, cacheVars, lifeVars, alertVars, calc>>

WaveDone(b) == WaveDoneWithin(b, MaxCalls)

\* savePositions(): fs.writeFile(tempPath, ...) is done
WriteTemp(b) ==
  /\ proc = "up"
  /\ bat[b].pc = "writing"
  /\ bat' = [bat EXCEPT ![b].pc = "renaming"]
  /\ file' = IF tempPath(b) = PositionsPath THEN bat[b].toSave ELSE file
  /\ UNCHANGED <<now, updateLocks, upc, nCalls, breakerVars, limiterVars, requestVars, cacheVars, lifeVars, alertVars, calc>>

\* savePositions(): fs.rename(tempPath, positionsPath) is done;
\* updateAllPositions() returns updatedPositions
Rename(b) ==
  /\ proc = "up"
  /\ bat[b].pc = "renaming"
  /\ file' = bat[b].toSave
  /\ bat' = [bat EXCEPT ![b] = [@ EXCEPT !.pc = "done", !.returned = bat[b].toSave]]
  /\ UNCHANGED <<now, updateLocks, upc, nCalls, breakerVars, limiterVars, requestVars, cacheVars, lifeVars, alertVars, calc>>

NextTracker ==
  \/ TickTracker
  \/ \E id \in DirectTargets : CallUpdatePosition(id)
  \/ \E c \in CallIds, ok \in BOOLEAN, data \in 1..MaxRev : SettlePerformUpdate(c, ok, data)
  \/ BeginUpdateAll("b1")
  \/ \E b \in Batches : WaveDone(b)
  \/ \E b \in Batches : WriteTemp(b)
  \/ \E b \in Batches : Rename(b)

SpecTracker == InitTracker /\ [][NextTracker]_vars

\* --------------------------------------------- lifecycle specification
\* addPosition(): loadPositions() has read the file; the new position is
\* pushed and savePositions() begins
CallAddPosition(o, id) ==
  /\ proc = "up"
  /\ ops[o].pc = "idle"
  /\ \A j \in 1..Len(file) : file[j].id # id
  /\ ops' = [ops EXCEPT ![o] =
               [pc |-> "writing", toSave |-> addPosition(loadPositions, id, now),
                ret |-> [NewPosition(id, "active") EXCEPT !.lu = now]]]
  /\ UNCHANGED <<now, file, updateLocks, upc, nCalls, bat, proc, recovered, timer,
                 breakerVars, limiterVars, requestVars, cacheVars, alertVars, calc>>

\* closePosition(): loadPositions() has read the file; the position is
\* closed and savePositions() begins, or the call throws
CallClosePosition(o, market) ==
  LET cl == closePosition(loadPositions, market, now) IN
  /\ proc = "up"
  /\ ops[o].pc = "idle"
  /\ ops' = [ops EXCEPT ![o] =
               IF cl.found
               THEN [pc |-> "writing", toSave |-> cl.positions, ret |-> cl.ret]
               ELSE [IdleOp EXCEPT !.pc = "thrown"]]
  /\ UNCHANGED <<now, file, updateLocks, upc, nCalls, bat, proc, recovered, timer,
                 breakerVars, limiterVars, requestVars, cacheVars, alertVars, calc>>

\* savePositions() of addPosition() / closePosition(): fs.writeFile is done
OpWriteTemp(o) ==
  /\ proc = "up"
  /\ ops[o].pc = "writing"
  /\ ops' = [ops EXCEPT ![o].pc = "renaming"]
  /\ file' = IF tempPath(o) = PositionsPath THEN ops[o].toSave ELSE file
  /\ UNCHANGED <<now, updateLocks, upc, nCalls, bat, proc, recovered, timer,
                 breakerVars, limiterVars, requestVars, cacheVars, alertVars, calc>>

\* savePositions() of addPosition() / closePosition(): fs.rename is done; the
\* call returns the position
OpRename(o) ==
  /\ proc = "up"
  /\ ops[o].pc = "renaming"
  /\ file' = ops[o].toSave
  /\ ops' = [ops EXCEPT ![o].pc = "done"]
  /\ UNCHANGED <<now, updateLocks, upc, nCalls, bat, proc, recovered, timer,
                 breakerVars, limiterVars, requestVars, cacheVars, alertVars, calc>>

\* The process is killed: what it held in memory is gone (the records of its
\* calls stay as they were at that moment), the disk is as it was
Crash ==
  /\ proc = "up"
  /\ proc' = "crashed"
  /\ UNCHANGED <<now, file, updateLocks, upc, nCalls, bat, ops, recovered, timer,
                 breakerVars, limiterVars, requestVars, cacheVars, alertVars, calc>>

\* The process is started again and calls loadPositions()
Restart ==
  /\ proc = "crashed"
  /\ proc' = "restarted"
  /\ recovered' = loadPositions
  /\ UNCHANGED <<now, file, updateLocks, upc, nCalls, bat, ops, timer,
                 breakerVars, limiterVars, requestVars, cacheVars, alertVars, calc>>

NextLifecycle ==
  \/ BeginUpdateAll("b1")
  \/ \E c \in CallIds, ok \in BOOLEAN, data \in 1..MaxRev : SettlePerformUpdate(c, ok, data)
  \/ WaveDone("b1")
  \/ WriteTemp("b1")
  \/ Rename("b1")
  \/ \E id \in NewIds : CallAddPosition("add", id)
  \/ \E id \in DirectTargets : CallClosePosition("close", id)
  \/ \E o \in Ops : OpWriteTemp(o)
  \/ \E o \in Ops : OpRename(o)
  \/ Crash
  \/ Restart

SpecLifecycle == InitTracker /\ [][NextLifecycle]_vars

\* ---------------------------------------------- poll-loop specification
\* startAutoUpdate() has set the interval; every firing of the timer calls
\* updateAllPositions(), whether or not an earlier cycle is still running
PollFire(b) == BeginUpdateAllWithin(b, MaxPollCalls)

PollWaveDone(b) == WaveDoneWithin(b, MaxPollCalls)

NextPoll ==
  \/ \E b \in Batches : PollFire(b)
  \/ \E c \in CallIds, ok \in BOOLEAN, data \in 1..MaxRev : SettlePerformUpdate(c, ok, data)
  \/ \E b \in Batches : PollWaveDone(b)
  \/ \E b \in Batches : WriteTemp(b)
  \/ \E b \in Batches : Rename(b)

SpecPoll == InitTracker /\ [][NextPoll]_vars

\* -------------------------------------------------- alert specification
\* Date.now() is a positive number of milliseconds
InitAlerts ==
  /\ now = 1
  /\ threshold = 1
  /\ cb = [g \in Groups |-> NewBreaker(0)]
  /\ lastOp = NoOp
  /\ streak = [g \in Groups |-> NoStreak]
  /\ LimiterUnused
  /\ RequestUnused
  /\ CacheUnused
  /\ LifeUnused
  /\ file = <<>>
  /\ updateLocks = [k \in LockKeys |-> 0]
  /\ upc = [c \in CallIds |-> FreeCall]
  /\ nCalls = 0
  /\ bat = [b \in Batches |-> IdleBatch]
  /\ CalcUnused
  /\ alertHistory = [f \in Fingerprints |-> NoTime]
  /\ persistedAlerts = <<>>
  /\ histFile = [alerts |-> <<>>, partial |-> FALSE, writers |-> 0]
  /\ enableWebhooks \in BOOLEAN
  /\ pipes = [p \in Pipes |-> IdlePipe]
  /\ sends = [f \in Fingerprints |-> <<>>]
  /\ ndisp = [f \in Fingerprints |-> 0]
  /\ badSuppress = FALSE

TickAlerts ==
  /\ proc = "up"
  /\ now < MaxTimeAlerts
  /\ now' = now + 1
  /\ UNCHANGED <<breakerVars, limiterVars, requestVars, cacheVars, trackerVars, alertVars, calc>>

\* history: no send of fp lies inside the window that ends now
WindowClear(fp) ==
  sends[fp] = <<>> \/ now - sends[fp][Len(sends[fp])] > DedupWindow

\* The loop of processAlerts() over the alerts raw, up to its next await:
\* suppressed alerts are passed over; the first alert to send is stamped in
\* alertHistory and recorded, and persistHistory() is called; with none left
\* processAlerts() returns processed
ProcessFrom(p, raw, processed, sent, failed) ==
  LET sendable == {j \in 1..Len(raw) : shouldSend(alertHistory[raw[j]], now)}
      k == IF sendable = {} THEN 0 ELSE CHOOSE j \in sendable : \A i \in sendable : j <= i
      skipped == IF k = 0 THEN raw ELSE SubSeq(raw, 1, k - 1) IN
  /\ badSuppress' = (badSuppress \/ \E j \in 1..Len(skipped) : WindowClear(skipped[j]))
  /\ IF k = 0
     THEN /\ pipes' = [pipes EXCEPT ![p] = [IdlePipe EXCEPT !.pc = "done", !.processed = processed,
                                                          !.sent = sent, !.failed = failed]]
          /\ UNCHANGED <<alertHistory, persistedAlerts, sends>>
     ELSE LET recs == recordAlert(persistedAlerts, raw[k], now) IN
          /\ alertHistory' = setLastSent(alertHistory, raw[k], now)
          /\ persistedAlerts' = recs
          /\ sends' = [sends EXCEPT ![raw[k]] = Append(@, now)]
          /\ pipes' = [pipes EXCEPT ![p] =
                         [IdlePipe EXCEPT !.pc = "persistCalled", !.raw = SubSeq(raw, k + 1, Len(raw)),
                                          !.cur = raw[k], !.data = recs, !.processed = processed,
                                          !.sent = Append(sent, raw[k]), !.failed = failed]]

\* processAlerts() is called with the alerts checkAlertConditions() returned
StartProcessAlerts(p, raw) ==
  /\ proc = "up"
  /\ pipes[p].pc \in {"idle", "done"}
  /\ ProcessFrom(p, raw, <<>>, <<>>, FALSE)
  /\ UNCHANGED <<now, histFile, enableWebhooks, ndisp,
                 breakerVars, limiterVars, requestVars, cacheVars, trackerVars, calc>>

\* persistHistory(): fs.writeFile(historyPath) has opened the history file,
\* which truncates it
PersistOpen(p) ==
  /\ proc = "up"
  /\ pipes[p].pc = "persistCalled"
  /\ pipes' = [pipes EXCEPT ![p].pc = "persisting"]
  /\ histFile' = [histFile EXCEPT !.partial = TRUE, !.writers = @ + 1]
  /\ UNCHANGED <<now, alertHistory, persistedAlerts, enableWebhooks, sends, ndisp,
                 badSuppress, breakerVars, limiterVars, requestVars, cacheVars, trackerVars, calc>>

\* persistHistory(): fs.writeFile is done; recordAlert() returns and
\* dispatch() is called: with webhooks off it returns at once and the loop
\* goes on, otherwise every url is sent the payload
PersistDone(p) ==
  /\ proc = "up"
  /\ pipes[p].pc = "persisting"
  /\ histFile' = [alerts |-> pipes[p].data, partial |-> histFile.writers > 1,
                  writers |-> histFile.writers - 1]
  /\ ndisp' = [ndisp EXCEPT ![pipes[p].cur] = @ + 1]
  /\ IF ~enableWebhooks \/ WebhookUrls = {}
     THEN ProcessFrom(p, pipes[p].raw, Append(pipes[p].processed, pipes[p].cur),
                      pipes[p].sent, pipes[p].failed)
     ELSE /\ pipes' = [pipes EXCEPT ![p] =
                         [@ EXCEPT !.pc = "dispatching", !.hooks = [u \in WebhookUrls |-> "pending"]]]
          /\ UNCHANGED <<alertHistory, persistedAlerts, sends, badSuppress>>
  /\ UNCHANGED <<now, enableWebhooks,
                 breakerVars, limiterVars, requestVars, cacheVars, trackerVars, calc>>

\* One sendWebhook() settles: a response, a connection error, the timeout, or
\* new URL(url) throwing
HookSettle(p, u, delivery) ==
  /\ proc = "up"
  /\ pipes[p].pc = "dispatching"
  /\ pipes[p].hooks[u] = "pending"
  /\ pipes' = [pipes EXCEPT ![p].hooks[u] = sendWebhook(delivery)]
  /\ UNCHANGED <<now, alertHistory, persistedAlerts, histFile, enableWebhooks, sends,
                 ndisp, badSuppress, breakerVars, limiterVars, requestVars, cacheVars, trackerVars, calc>>

\* Every sendWebhook() has settled and dispatch() settles: fulfilled, the
\* loop of processAlerts() goes on; rejected, the await throws out of
\* processAlerts() and the alerts processed so far are lost
DispatchDone(p) ==
  /\ proc = "up"
  /\ pipes[p].pc = "dispatching"
  /\ \A u \in WebhookUrls : pipes[p].hooks[u] \in {"resolved", "rejected"}
  /\ IF dispatch(pipes[p].hooks) = "fulfilled"
     THEN ProcessFrom(p, pipes[p].raw, Append(pipes[p].processed, pipes[p].cur), pipes[p].sent,
                      pipes[p].failed \/ \E u \in WebhookUrls : pipes[p].hooks[u] = "rejected")
     ELSE /\ pipes' = [pipes EXCEPT ![p] = [IdlePipe EXCEPT !.pc = "thrown"]]
          /\ UNCHANGED <<alertHistory, persistedAlerts, sends, badSuppress>>
  /\ UNCHANGED <<now, histFile, enableWebhooks, ndisp,
                 breakerVars, limiterVars, requestVars, cacheVars, trackerVars, calc>>

\* loadHistory(): the alerts of the history file, [] when it does not parse
loadHistory == IF histFile.partial THEN <<>> ELSE histFile.alerts

NextAlerts ==
  \/ TickAlerts
  \/ \E p \in Pipes, raw \in RawAlerts : StartProcessAlerts(p, raw)
  \/ \E p \in Pipes : PersistOpen(p)
  \/ \E p \in Pipes : PersistDone(p)
  \/ \E p \in Pipes, u \in WebhookUrls, d \in Deliveries : HookSettle(p, u, d)
  \/ \E p \in Pipes : DispatchDone(p)

SpecAlerts == InitAlerts /\ [][NextAlerts]_vars

\* ------------------------------------------------ cleanup specification
\* The alert pipelines with webhooks off and the cleanup timer of
\* setupCleanup() firing at any time
InitCleanup ==
  /\ InitAlerts
  /\ ~enableWebhooks

TickCleanup ==
  /\ proc = "up"
  /\ now < MaxTimeCleanup
  /\ now' = now + 1
  /\ UNCHANGED <<breakerVars, limiterVars, requestVars, cacheVars, trackerVars, alertVars, calc>>

\* The cleanup interval fires: alertManager.cleanup()
Cleanup ==
  /\ proc = "up"
  /\ alertHistory' = cleanup(alertHistory, now)
  /\ alertHistory' # alertHistory
  /\ UNCHANGED <<now, persistedAlerts, histFile, enableWebhooks, pipes, sends, ndisp,
                 badSuppress, breakerVars, limiterVars, requestVars, cacheVars, trackerVars, calc>>

NextCleanup ==
  \/ TickCleanup
  \/ \E p \in Pipes, raw \in RawAlerts : StartProcessAlerts(p, raw)
  \/ \E p \in Pipes : PersistOpen(p)
  \/ \E p \in Pipes : PersistDone(p)
  \/ Cleanup

SpecCleanup == InitCleanup /\ [][NextCleanup]_vars

\* ----------------------------------------------- dispatch specification
\* One call of processAlerts() at a time, as within one performUpdate().
\* Every sendWebhook() settles, by its timeout at the latest, and the event
\* loop runs the continuation of a settled await
NextDispatch ==
  \/ TickAlerts
  \/ \E raw \in RawAlerts : StartProcessAlerts("u1", raw)
  \/ PersistOpen("u1")
  \/ PersistDone("u1")
  \/ \E u \in WebhookUrls, d \in Deliveries : HookSettle("u1", u, d)
  \/ DispatchDone("u1")

SpecDispatch ==
  /\ InitAlerts
  /\ [][NextDispatch]_vars
  /\ WF_vars(\E u \in WebhookUrls, d \in Deliveries : HookSettle("u1", u, d))
  /\ WF_vars(DispatchDone("u1"))

\* ---------------------------------------------------- PnL specification
PnLPrices == {10, 20, 30, 35, 40, 50, 90}   \* entry and current prices, in cents
PnLAmounts == {50, 100}

InitOthersUnused ==
  /\ now = 0
  /\ threshold = 1
  /\ cb = [g \in Groups |-> NewBreaker(0)]
  /\ lastOp = NoOp
  /\ streak = [g \in Groups |-> NoStreak]
  /\ LimiterUnused
  /\ RequestUnused
  /\ CacheUnused
  /\ LifeUnused
  /\ file = <<>>
  /\ updateLocks = [k \in LockKeys |-> 0]
  /\ upc = [c \in CallIds |-> FreeCall]
  /\ nCalls = 0
  /\ bat = [b \in Batches |-> IdleBatch]
  /\ alertHistory = [f \in Fingerprints |-> NoTime]
  /\ persistedAlerts = <<>>
  /\ histFile = [alerts |-> <<>>, partial |-> FALSE, writers |-> 0]
  /\ enableWebhooks = FALSE
  /\ pipes = [p \in Pipes |-> IdlePipe]
  /\ sends = [f \in Fingerprints |-> <<>>]
  /\ ndisp = [f \in Fingerprints |-> 0]
  /\ badSuppress = FALSE

InitPnL ==
  /\ InitOthersUnused
  /\ \E e \in PnLPrices, c \in PnLPrices, side \in Sides, a \in PnLAmounts :
       calc = [fn |-> "calculatePnL", entryPrice |-> e, currentPrice |-> c, position |-> side,
               amount |-> a, done |-> FALSE, out |-> NoPnL]

CallCalculatePnL ==
  /\ ~calc.done
  /\ calc' = [calc EXCEPT !.done = TRUE,
                          !.out = calculatePnL(calc.entryPrice, calc.currentPrice, calc.position,
                                               calc.amount)]
  /\ UNCHANGED <<now, breakerVars, limiterVars, requestVars, cacheVars, trackerVars, alertVars>>

NextPnL == CallCalculatePnL

SpecPnL == InitPnL /\ [][NextPnL]_vars

\* --------------------------------------------- update-cycle specification
MaxCycles == 2      \* update cycles of the position
EntryPrices == {20, 50}
MarketData ==
  {[yes |-> y, no |-> 100 - y, liquidity |-> l, days |-> d] :
     y \in {14, 35, 50}, l \in {4000, 40000}, d \in {5, 30}}

\* The position addPosition() has just created
InitCycle ==
  /\ InitOthersUnused
  /\ \E side \in Sides, e \in EntryPrices :
       calc = [fn |-> "performUpdate", cycle |-> 0,
               position |-> [position |-> side, amount |-> 100, entry_price |-> e,
                             current_price |-> Undefined, unrealized_pnl_pct |-> Undefined,
                             days_to_resolution |-> Undefined, liquidity |-> Undefined],
               marketData |-> [yes |-> 0, no |-> 0, liquidity |-> 0, days |-> 0],
               history |-> <<>>, alerts |-> <<>>]

\* One update cycle of the position: performUpdate() on what the market
\* reports; the updated record is the position of the next cycle
UpdateCycle(m) ==
  LET r == performUpdateFields(calc.position, m, calc.history) IN
  /\ calc.cycle < MaxCycles
  /\ calc' = [calc EXCEPT !.cycle = @ + 1, !.position = r.position, !.marketData = m,
                          !.history = r.history, !.alerts = r.alerts]
  /\ UNCHANGED <<now, breakerVars, limiterVars, requestVars, cacheVars, trackerVars, alertVars>>

NextCycle == \E m \in MarketData : UpdateCycle(m)

SpecCycle == InitCycle /\ [][NextCycle]_vars

\* ------------------------------------------------ resolution specification
\* getCompleteMarketData(marketIdOrSlug, options): the market the query
\* resolves to. A query is all digits (or a number), or holds a hyphen, or is
\* shorter or longer than 100 characters
Queries ==
  {[digits |-> TRUE, hyphen |-> FALSE, length |-> 6],
   [digits |-> FALSE, hyphen |-> TRUE, length |-> 20],
   [digits |-> FALSE, hyphen |-> FALSE, length |-> 20],
   [digits |-> FALSE, hyphen |-> TRUE, length |-> 120],
   [digits |-> FALSE, hyphen |-> FALSE, length |-> 120]}

MarketIds == {"m1", "m2", "m3"}

\* What a call upstream can do: request() throws for a status >= 400 and for
\* a network failure
Failures == {"http404", "network"}

\* What upstream answers to each step of one call: getMarketById() gives the
\* body of /markets/<id> or throws; getMarketBySlug() and
\* findMarketByKeywords() search a listing and give a market or none, or
\* throw with the listing; getSearchSuggestions() gives a list or throws with
\* the listing. Only a query of digits is an id to look up, and only a query
\* that is not all digits and shorter than 100 characters is a slug; the
\* other lookups of such a query have nothing to find
Upstreams ==
  {e \in [byId : {"m1", "none"} \cup Failures, bySlug : {"m2", "none", "network"},
          byKeyword : {"m3", "none", "network"}, suggestions : {"list", "network"}] : TRUE}

Answers(q) ==
  {e \in Upstreams :
     /\ e.byId # "none" => q.digits
     /\ e.bySlug # "none" => (~q.digits /\ q.length < 100)}

Found(market, method) == [kind |-> "market", id |-> market, searchMethod |-> method]
Thrown(failure) == [kind |-> "error", message |-> failure, suggestions |-> "undefined"]

\* if (!market): error.suggestions = await this.getSearchSuggestions(); throw
NotFound(e) ==
  IF e.suggestions \in Failures THEN Thrown(e.suggestions)
  ELSE [kind |-> "error", message |-> "Market not found", suggestions |-> e.suggestions]

getCompleteMarketData(q, e, fallbackToSearch) ==
  LET market == IF q.digits THEN e.byId
                ELSE IF q.hyphen \/ q.length < 100 THEN e.bySlug
                ELSE "none" IN
  IF market \in Failures THEN Thrown(market)
  ELSE IF market \in MarketIds THEN Found(market, "direct")
  ELSE IF fallbackToSearch
       THEN IF e.byKeyword \in Failures THEN Thrown(e.byKeyword)
            ELSE IF e.byKeyword \in MarketIds THEN Found(e.byKeyword, "keyword")
            ELSE NotFound(e)
       ELSE NotFound(e)

NoResult == [kind |-> "none"]

InitResolve ==
  /\ InitOthersUnused
  /\ \E q \in Queries, fb \in BOOLEAN : \E e \in Answers(q) :
       calc = [fn |-> "getCompleteMarketData", query |-> q, upstream |-> e,
               fallbackToSearch |-> fb, done |-> FALSE, out |-> NoResult]

CallGetCompleteMarketData ==
  /\ calc.fn = "getCompleteMarketData"
  /\ ~calc.done
  /\ calc' = [calc EXCEPT !.done = TRUE,
                          !.out = getCompleteMarketData(calc.query, calc.upstream,
                                                        calc.fallbackToSearch)]
  /\ UNCHANGED <<now, breakerVars, limiterVars, requestVars, cacheVars, trackerVars, alertVars>>

NextResolve == CallGetCompleteMarketData

SpecResolve == InitResolve /\ [][NextResolve]_vars

\* ----------------------------------------------------- timer specification
InitTimer == InitOthersUnused /\ calc = [fn |-> "none"]

\* startAutoUpdate() is called: up to await this.alertManager.loadHistory()
CallStartAutoUpdate(s) ==
  /\ timer.starts[s] = "idle"
  /\ timer' = [timer EXCEPT !.starts[s] = "loading", !.stopped = FALSE]
  /\ UNCHANGED <<now, breakerVars, limiterVars, requestVars, cacheVars, file, updateLocks, upc,
                 nCalls, bat, ops, proc, recovered, alertVars, calc>>

\* loadHistory() is done: if (this.intervalId) clearInterval(this.intervalId),
\* then up to await this.updateAllPositions()
StartLoaded(s) ==
  /\ timer.starts[s] = "loading"
  /\ timer' = [timer EXCEPT !.starts[s] = "updating",
                            !.timers = clearInterval(timer.timers, timer.intervalId)]
  /\ UNCHANGED <<now, breakerVars, limiterVars, requestVars, cacheVars, file, updateLocks, upc,
                 nCalls, bat, ops, proc, recovered, alertVars, calc>>

\* The initial updateAllPositions() is done: this.intervalId = setInterval(...)
StartInitialDone(s) ==
  /\ timer.starts[s] = "updating"
  /\ timer' = [timer EXCEPT !.starts[s] = "done", !.timers[s] = "active", !.intervalId = s]
  /\ UNCHANGED <<now, breakerVars, limiterVars, requestVars, cacheVars, file, updateLocks, upc,
                 nCalls, bat, ops, proc, recovered, alertVars, calc>>

\* stopAutoUpdate(): if (this.intervalId) { clearInterval; intervalId = null }
CallStopAutoUpdate ==
  /\ ~timer.stopped
  /\ timer' = [timer EXCEPT !.timers = clearInterval(timer.timers, timer.intervalId),
                            !.intervalId = "null", !.stopped = TRUE]
  /\ UNCHANGED <<now, breakerVars, limiterVars, requestVars, cacheVars, file, updateLocks, upc,
                 nCalls, bat, ops, proc, recovered, alertVars, calc>>

\* An interval timer that is not cleared fires: this.updateAllPositions()
TimerFire(s) ==
  /\ timer.timers[s] = "active"
  /\ timer.fired < MaxTimerCycles
  /\ timer' = [timer EXCEPT !.running = @ + 1, !.fired = @ + 1]
  /\ UNCHANGED <<now, breakerVars, limiterVars, requestVars, cacheVars, file, updateLocks, upc,
                 nCalls, bat, ops, proc, recovered, alertVars, calc>>

\* A cycle started by a timer runs to its end
CycleDone ==
  /\ timer.running > 0
  /\ timer' = [timer EXCEPT !.running = @ - 1]
  /\ UNCHANGED <<now, breakerVars, limiterVars, requestVars, cacheVars, file, updateLocks, upc,
                 nCalls, bat, ops, proc, recovered, alertVars, calc>>

NextTimer ==
  \/ \E s \in StartCalls : CallStartAutoUpdate(s)
  \/ \E s \in StartCalls : StartLoaded(s)
  \/ \E s \in StartCalls : StartInitialDone(s)
  \/ CallStopAutoUpdate
  \/ \E s \in StartCalls : TimerFire(s)
  \/ CycleDone

SpecTimer == InitTimer /\ [][NextTimer]_vars

\* ----------------------------------------------- fingerprint specification
\* positionData.market of addPosition(): a question, or the id of the market
MarketNames == {"will-x-happen", "101"}
\* marketData.id of the market the position resolves to
UpstreamIds == {"101", "102"}
NoMarketId == "undefined"
AlertKinds ==
  {[type |-> "PRICE_MOVE", severity |-> "HIGH"], [type |-> "PRICE_MOVE", severity |-> "MEDIUM"],
   [type |-> "TAKE_PROFIT", severity |-> "HIGH"], [type |-> "STOP_LOSS", severity |-> "HIGH"]}

\* generateFingerprint(position, alert): the md5 of
\* `${position.market_id || position.market}:${alert.type}:${alert.severity}`,
\* as the hashed string's three parts
generateFingerprint(position, alert) ==
  <<IF position.market_id # NoMarketId THEN position.market_id ELSE position.market,
    alert.type, alert.severity>>

FingerprintKeys ==
  {generateFingerprint([market |-> m, market_id |-> i], a) :
     m \in MarketNames, i \in UpstreamIds \cup {NoMarketId}, a \in AlertKinds}

\* The position addPosition() has just created, which carries no market_id,
\* on a market whose upstream id is id. History: computed, the fingerprint of
\* each cycle's alert; recorded, the alerts recordAlert() was called for
InitFingerprint ==
  /\ now = 1
  /\ threshold = 1
  /\ cb = [g \in Groups |-> NewBreaker(0)]
  /\ lastOp = NoOp
  /\ streak = [g \in Groups |-> NoStreak]
  /\ LimiterUnused
  /\ RequestUnused
  /\ CacheUnused
  /\ LifeUnused
  /\ file = <<>>
  /\ updateLocks = [k \in LockKeys |-> 0]
  /\ upc = [c \in CallIds |-> FreeCall]
  /\ nCalls = 0
  /\ bat = [b \in Batches |-> IdleBatch]
  /\ alertHistory = [f \in Fingerprints |-> NoTime]
  /\ persistedAlerts = <<>>
  /\ histFile = [alerts |-> <<>>, partial |-> FALSE, writers |-> 0]
  /\ enableWebhooks = FALSE
  /\ pipes = [p \in Pipes |-> IdlePipe]
  /\ sends = [f \in Fingerprints |-> <<>>]
  /\ ndisp = [f \in Fingerprints |-> 0]
  /\ badSuppress = FALSE
  /\ \E m \in MarketNames, i \in UpstreamIds :
       calc = [fn |-> "generateFingerprint", cycle |-> 0, id |-> i,
               position |-> [market |-> m, market_id |-> NoMarketId],
               alertHistory |-> [f \in FingerprintKeys |-> NoTime],
               computed |-> <<>>, recorded |-> <<>>]

TickFingerprint ==
  /\ calc.fn = "generateFingerprint"
  /\ now < MaxTimeAlerts
  /\ now' = now + 1
  /\ UNCHANGED <<breakerVars, limiterVars, requestVars, cacheVars, trackerVars, alertVars, calc>>

\* One update cycle in which checkAlertConditions() raises alert:
\* processAlerts(position, ...) on the position as it was passed in, then the
\* updated record with market_id: marketData.id is the position of the next cycle
CycleWithAlert(alert) ==
  LET fp == generateFingerprint(calc.position, alert)
      send == shouldSend(calc.alertHistory[fp], now)
      rec == [fingerprint |-> fp, type |-> alert.type, severity |-> alert.severity,
              timestamp |-> now] IN
  /\ calc.fn = "generateFingerprint"
  /\ calc.cycle < MaxCycles
  /\ calc' = [calc EXCEPT !.cycle = @ + 1,
                          !.position = [@ EXCEPT !.market_id = calc.id],
                          !.alertHistory = IF send THEN setLastSent(@, fp, now) ELSE @,
                          !.computed = Append(@, rec),
                          !.recorded = IF send THEN Append(@, rec) ELSE @]
  /\ UNCHANGED <<now, breakerVars, limiterVars, requestVars, cacheVars, trackerVars, alertVars>>

NextFingerprint ==
  \/ TickFingerprint
  \/ \E alert \in AlertKinds : CycleWithAlert(alert)

SpecFingerprint == InitFingerprint /\ [][NextFingerprint]_vars

\* ----------------------------------------------------- price specification
\* The price samples of one market: performUpdate() of a position on the
\* market calls trackPriceHistory() and then checkAlertConditions(), with no
\* await between them; positions that share the market take turns
SamplePrices == {50, 51, 54, 60}

InitPrice ==
  /\ InitOthersUnused
  /\ calc = [fn |-> "trackPriceHistory", history |-> <<>>, samples |-> <<>>, alerts |-> <<>>]

TickPrice ==
  /\ calc.fn = "trackPriceHistory"
  /\ now < MaxTimePrice
  /\ now' = now + 1
  /\ UNCHANGED <<breakerVars, limiterVars, requestVars, cacheVars, trackerVars, alertVars, calc>>

\* samples is history: every sample taken, with its time
SamplePrice(currentPrice) ==
  LET tracked == trackPriceHistory(calc.history, currentPrice, now) IN
  /\ calc.fn = "trackPriceHistory"
  /\ Len(calc.samples) < MaxSamples
  /\ calc' = [calc EXCEPT !.history = tracked,
                          !.samples = Append(@, [price |-> currentPrice, timestamp |-> now]),
                          !.alerts = PriceMove(oldPriceEntry(tracked, now), currentPrice)]
  /\ UNCHANGED <<now, breakerVars, limiterVars, requestVars, cacheVars, trackerVars, alertVars>>

NextPrice ==
  \/ TickPrice
  \/ \E currentPrice \in SamplePrices : SamplePrice(currentPrice)

SpecPrice == InitPrice /\ [][NextPrice]_vars

\* ----------------------------------------------------- fuzzy specification
\* findMarketByKeywords(searchQuery, options) over the listing getMarkets()
\* returned. A market of the listing: how many of the search terms its
\* question holds, how many of the others its description holds, and the
\* fields the score reads
MaxListing == 3     \* markets in the listing: 1..MaxListing

MarketKinds ==
  {[inQuestion |-> 1, inDescription |-> 0, acceptingOrders |-> TRUE, closed |-> FALSE,
    liquidityNum |-> 0, volume24hr |-> 0, archived |-> FALSE],
   [inQuestion |-> 1, inDescription |-> 0, acceptingOrders |-> TRUE, closed |-> FALSE,
    liquidityNum |-> 0, volume24hr |-> 0, archived |-> TRUE],
   [inQuestion |-> 0, inDescription |-> 2, acceptingOrders |-> TRUE, closed |-> FALSE,
    liquidityNum |-> 0, volume24hr |-> 0, archived |-> FALSE],
   [inQuestion |-> 0, inDescription |-> 1, acceptingOrders |-> FALSE, closed |-> TRUE,
    liquidityNum |-> 0, volume24hr |-> 0, archived |-> FALSE],
   [inQuestion |-> 0, inDescription |-> 0, acceptingOrders |-> FALSE, closed |-> TRUE,
    liquidityNum |-> 0, volume24hr |-> 0, archived |-> FALSE],
   [inQuestion |-> 0, inDescription |-> 0, acceptingOrders |-> TRUE, closed |-> FALSE,
    liquidityNum |-> 0, volume24hr |-> 0, archived |-> FALSE],
   [inQuestion |-> 2, inDescription |-> 0, acceptingOrders |-> FALSE, closed |-> TRUE,
    liquidityNum |-> 60000, volume24hr |-> 2000, archived |-> FALSE]}

Listings == UNION {[1..n -> MarketKinds] : n \in 1..MaxListing}

\* options.minScore: not given, or a number
MinScores == {Undefined, 0, 3, 30, 50}

\* The score the loop body gives a market
Score(market) ==
  10 * market.inQuestion + 5 * market.inDescription
  + (IF market.acceptingOrders THEN 15 ELSE 0)
  + (IF ~market.closed THEN 10 ELSE 0)
  + (IF market.liquidityNum > 10000 THEN 5 ELSE 0)
  + (IF market.liquidityNum > 50000 THEN 10 ELSE 0)
  + (IF market.liquidityNum > 100000 THEN 15 ELSE 0)
  + (IF market.volume24hr > 1000 THEN 3 ELSE 0)
  + (IF market.volume24hr > 10000 THEN 5 ELSE 0)

\* if (score > bestScore)
Better(score, bestScore) == score > bestScore

\* The loop over the first n markets: [bestMatch, bestScore], bestMatch the
\* place in the listing, 0 for null
RECURSIVE BestOf(_, _, _)
BestOf(markets, n, includeArchived) ==
  IF n = 0 THEN [bestMatch |-> 0, bestScore |-> 0]
  ELSE LET prev == BestOf(markets, n - 1, includeArchived) IN
       IF markets[n].archived /\ ~includeArchived THEN prev
       ELSE IF Better(Score(markets[n]), prev.bestScore)
            THEN [bestMatch |-> n, bestScore |-> Score(markets[n])]
            ELSE prev

\* options.minScore || 10
MinScoreOr10(minScore) == IF minScore = Undefined \/ minScore = 0 THEN 10 ELSE minScore

findMarketByKeywords(markets, minScore, includeArchived) ==
  LET best == BestOf(markets, Len(markets), includeArchived) IN
  IF best.bestMatch # 0 /\ best.bestScore >= MinScoreOr10(minScore)
  THEN best.bestMatch
  ELSE 0

InitFuzzy ==
  /\ InitOthersUnused
  /\ \E markets \in Listings, minScore \in MinScores, ia \in BOOLEAN :
       calc = [fn |-> "findMarketByKeywords", markets |-> markets, minScore |-> minScore,
               includeArchived |-> ia, done |-> FALSE, out |-> 0]

CallFindMarketByKeywords ==
  /\ calc.fn = "findMarketByKeywords"
  /\ ~calc.done
  /\ calc' = [calc EXCEPT !.done = TRUE,
                          !.out = findMarketByKeywords(calc.markets, calc.minScore,
                                                       calc.includeArchived)]
  /\ UNCHANGED <<now, breakerVars, limiterVars, requestVars, cacheVars, trackerVars, alertVars>>

NextFuzzy == CallFindMarketByKeywords

SpecFuzzy == InitFuzzy /\ [][NextFuzzy]_vars

\* ================================================================ claims

\* C1: once threshold failures have been recorded on a breaker with no
\* recordSuccess() in between, the breaker is OPEN, and every canExecute() made
\* less than timeout ticks after that threshold-th failure returns false.
C1_OpenAfterThreshold ==
  \A g \in Groups :
    /\ (lastOp.op = "recordFailure" /\ lastOp.g = g /\ streak[g].n >= threshold)
         => cb[g].state = "OPEN"
    /\ (lastOp.op = "canExecute" /\ lastOp.g = g /\ streak[g].at # NoTime
          /\ now < streak[g].at + CBTimeout)
         => lastOp.ret = FALSE

\* C1's case: a canExecute() refused one tick after the threshold-th failure
C1_Witness ==
  \E g \in Groups :
    /\ lastOp.op = "canExecute" /\ lastOp.g = g /\ lastOp.ret = FALSE
    /\ streak[g].n = threshold /\ threshold > 1
    /\ now > streak[g].at /\ now < streak[g].at + CBTimeout

\* C2: canExecute() on an OPEN breaker with now >= nextAttempt returns true and
\* moves it to HALF_OPEN (the only step that emits halfOpen); canExecute() on a
\* HALF_OPEN breaker returns true and changes nothing; recordSuccess() on a
\* HALF_OPEN breaker leaves it CLOSED with failure count 0.
C2_HalfOpenOnceThenClose ==
  \A g \in Groups :
    (lastOp.g = g) =>
      /\ (lastOp.op = "canExecute" /\ lastOp.pre.state = "OPEN"
            /\ now >= lastOp.pre.nextAttempt)
           => (lastOp.ret = TRUE /\ cb[g].state = "HALF_OPEN" /\ lastOp.emit = "halfOpen")
      /\ (lastOp.op = "canExecute" /\ lastOp.pre.state = "HALF_OPEN")
           => (lastOp.ret = TRUE /\ cb[g] = lastOp.pre /\ lastOp.emit = "none")
      /\ (lastOp.emit = "halfOpen")
           => (lastOp.op = "canExecute" /\ lastOp.pre.state = "OPEN"
               /\ cb[g].state = "HALF_OPEN")
      /\ (lastOp.op = "recordSuccess" /\ lastOp.pre.state = "HALF_OPEN")
           => (cb[g].state = "CLOSED" /\ cb[g].failures = 0)

\* C2's case: a success recorded on a HALF_OPEN breaker that had failures
C2_Witness ==
  \E g \in Groups :
    /\ lastOp.op = "recordSuccess" /\ lastOp.g = g
    /\ lastOp.pre.state = "HALF_OPEN" /\ lastOp.pre.failures >= threshold
    /\ cb[g].state = "CLOSED"

\* C3: no executeRequest() to a group is started while that group's breaker is
\* OPEN and now < nextAttempt.
C3_NoAttemptWhileOpen ==
  [][\A r \in Reqs :
       (req[r].pc # "exec" /\ req'[r].pc = "exec")
         => ~(cb'[req'[r].g].state = "OPEN" /\ now' < cb'[req'[r].g].nextAttempt)]_vars

\* C4: once an attempt of a request() call was rejected with a 4xx status, the
\* call has thrown, it made no further attempt, and no recordFailure() was made
\* for the rejection.
C4_ClientErrorNotRetriedNotCounted ==
  \A r \in Reqs :
    req[r].cliSeen
      => (req[r].pc = "thrown" /\ req[r].thrownErr = req[r].nAtt
          /\ ~req[r].cliRetried /\ ~req[r].cliRec)

\* C5: a request() call makes at most maxRetries + 1 attempts; it returns as soon
\* as an attempt resolves, with that attempt's value; every attempt rejected
\* without a status or with a 5xx had exactly one recordFailure(); and a call
\* whose maxRetries + 1 attempts were all rejected throws the last attempt's error.
C5_BoundedRetries ==
  \A r \in Reqs :
    /\ req[r].nAtt <= maxRetries + 1
    /\ (req[r].okAt > 0) => (req[r].pc = "returned" /\ req[r].nAtt = req[r].okAt)
    /\ (req[r].pc = "returned") => (req[r].okAt > 0 /\ req[r].result = req[r].okAt)
    /\ req[r].recEach
    /\ (req[r].pc = "thrown" /\ req[r].nAtt = maxRetries + 1)
         => req[r].thrownErr = maxRetries + 1

\* C5's cases: a call that threw after maxRetries + 1 > 1 rejected attempts, none
\* a 4xx, while another call returned the value of its second attempt
C5_Witness ==
  \E r, q \in Reqs :
    /\ maxRetries >= 1
    /\ req[r].pc = "thrown" /\ req[r].nAtt = maxRetries + 1 /\ ~req[r].cliSeen
    /\ req[r].thrownErr = maxRetries + 1
    /\ req[q].pc = "returned" /\ req[q].result = 2

\* C6: of the acquire() calls made at the tick a call found the bucket full, the
\* first capacity ones return without sleeping, and the next one does not return
\* before 1/refillRate (TicksPerSecond / capacity ticks) has passed.
C6_BurstThenWait ==
  \A p \in Callers :
    /\ (acq[p].rank \in 1..capacity) => (acq[p].pc = "done" /\ acq[p].slept = 0)
    /\ (acq[p].rank = capacity + 1)
         => /\ acq[p].slept * capacity >= TicksPerSecond
            /\ ((now - acq[p].called) * capacity < TicksPerSecond) => acq[p].pc = "sleeping"

\* C6's case: the call after a burst of capacity > 1 calls has slept and returned
C6_Witness ==
  \E p \in Callers :
    /\ capacity > 1 /\ acq[p].rank = capacity + 1 /\ acq[p].pc = "done"
    /\ \E q \in Callers : acq[q].rank = capacity /\ acq[q].called = acq[p].called

\* C7: a getCached() call that finds no fresh entry for its key while a fetch for
\* the key is unsettled does not invoke fetchFn and awaits that fetch, so the
\* calls made for a key between one fetchFn() invocation and its settling
\* invoke fetchFn once, and every one of them that returns gets that fetch's value.
C7_SingleFlight ==
  /\ \A k \in Keys :
       Cardinality({f \in FetchIds : fetches[f].st = "inflight" /\ fetches[f].key = k}) <= 1
  /\ \A c \in CCallers :
       /\ (cc[c].joined # 0) => (~cc[c].started /\ cc[c].awaiting = cc[c].joined)
       /\ (cc[c].pc = "waiting") => fetches[cc[c].awaiting].st = "inflight"
       /\ (cc[c].pc = "returned" /\ cc[c].awaiting # 0)
            => (cc[c].value = cc[c].awaiting /\ fetches[cc[c].awaiting].st = "resolved")

\* C7's case: three calls for one key, made before its fetch settled, one of them
\* invoked fetchFn, and all three returned the value of that fetch
C7_Witness ==
  \E k \in Keys, f \in FetchIds :
    /\ \A c \in CCallers :
         cc[c].key = k /\ cc[c].pc = "returned" /\ cc[c].awaiting = f /\ cc[c].value = f
    /\ Cardinality({c \in CCallers : cc[c].started}) = 1
    /\ Cardinality({c \in CCallers : cc[c].joined = f}) = 2

\* ---- tracker claims
Running(k) == {c \in CallIds : upc[c].pc = "running" /\ lockKey(upc[c].pos) = k}

\* C8: for every lock key at most one performUpdate is in flight at any time,
\* whatever the number of concurrent updatePosition callers
C8_OnePerformUpdatePerKey ==
  \A k \in LockKeys : Cardinality(Running(k)) <= 1

\* C9 (as stated): a call that found an update in flight for its key starts no
\* performUpdate of its own and returns the result of the update it found
C9_JoinsInFlightUpdate ==
  \A c \in CallIds :
    upc[c].found # 0 =>
      /\ ~upc[c].ranOwn
      /\ upc[c].pc = "done" => upc[c].result = upc[upc[c].found].result

\* C9 (amended): a call that found an update registered for its key waits
\* until that update has settled, and only then starts its own performUpdate,
\* whose result it returns
C9_WaitsThenRunsOwnUpdate ==
  \A c \in CallIds :
    upc[c].found # 0 =>
      /\ upc[c].pc = "waiting" =>
           /\ ~upc[c].ranOwn
           /\ upc[c].waitOn = upc[c].found
           /\ upc[upc[c].found].pc = "running"
      /\ upc[c].pc \in {"running", "done"} =>
           /\ upc[c].ranOwn
           /\ upc[upc[c].found].pc = "done"
      /\ upc[c].pc = "done" =>
           /\ upc[c].result.id = upc[c].pos.id
           /\ upc[c].result.lu >= upc[upc[c].found].result.lu
           /\ upc[c].result.err = (upc[c].pos.err \/ ~upc[c].ok)

C9_Witness ==
  \E c \in CallIds :
    /\ upc[c].found # 0
    /\ upc[c].pc = "done"
    /\ upc[c].ok # upc[upc[c].found].ok

IdsOf(ps) == [j \in 1..Len(ps) |-> ps[j].id]
CountIn(ps, id) == Cardinality({j \in 1..Len(ps) : ps[j].id = id})

\* C10: updateAllPositions returns and persists exactly one record per loaded
\* position; an active position whose update failed keeps its fields and gains
\* update_error and a fresh timestamp, the other active positions are
\* refreshed all the same, and non-active positions pass through unchanged
C10_OneRecordPerLoadedPosition ==
  \A b \in Batches :
    bat[b].pc = "done" =>
      LET q == bat[b]
          nonActive == SelectSeq(q.loaded, LAMBDA p : p.status # "active") IN
      /\ file = q.returned
      /\ Len(q.returned) = Len(q.loaded)
      /\ \A j \in 1..Len(q.loaded) : CountIn(q.returned, q.loaded[j].id) = 1
      /\ Len(q.calls) = Len(q.active)
      /\ \A j \in 1..Len(q.active) :
           LET p == q.active[j]
               r == q.returned[j]
               c == q.calls[j] IN
           /\ upc[c].pos = p
           /\ r.lu >= p.lu
           /\ IF upc[c].ok
              THEN \E d \in 1..MaxRev : r = performUpdateOk(p, d, r.lu)
              ELSE r = [p EXCEPT !.err = TRUE, !.lu = r.lu]
      /\ \A j \in 1..Len(nonActive) : q.returned[Len(q.active) + j] = nonActive[j]

C10_Witness ==
  \E b \in Batches :
    /\ bat[b].pc = "done"
    /\ file = bat[b].returned
    /\ \E j \in 1..Len(bat[b].loaded) : bat[b].loaded[j].status # "active"
    /\ \E j1, j2 \in 1..Len(bat[b].calls) :
         /\ ~upc[bat[b].calls[j1]].ok
         /\ upc[bat[b].calls[j2]].ok
         /\ bat[b].returned[j2].rev > 0

CeilDiv(m, n) == (m + n - 1) \div n

\* C11: a cycle over M active positions runs ceil(M/N) waves, the calls of a
\* wave start only when every call of the waves before has settled, and at no
\* time are more than N performUpdate calls in flight
C11_WavesBoundInFlight ==
  /\ \A b \in Batches :
       /\ bat[b].pc \in {"writing", "renaming", "done"} =>
            bat[b].waves = CeilDiv(Len(bat[b].active), ConcurrentUpdates)
       /\ \A j \in 1..Len(bat[b].calls) :
            upc[bat[b].calls[j]].pc # "done" =>
              \E k \in 1..Len(bat[b].wave) : bat[b].wave[k] = bat[b].calls[j]
       /\ Len(bat[b].wave) <= ConcurrentUpdates
  /\ Cardinality({c \in CallIds : upc[c].pc = "running"}) <= ConcurrentUpdates

\* C12: a position persisted as closed is never persisted as active afterwards
C12_ClosedStaysClosed ==
  [][\A j \in 1..Len(file), k \in 1..Len(file') :
       (file[j].status = "closed" /\ file'[k].id = file[j].id) => file'[k].status # "active"]_vars

\* C13: once addPosition has returned a position, every persisted snapshot
\* contains it
C13_AddedStaysPersisted ==
  \A o \in Ops :
    (ops[o].pc = "done" /\ ops[o].ret.id \in NewIds) =>
      \E j \in 1..Len(file) : file[j].id = ops[o].ret.id

\* ---- persistence claims
\* C15: at every moment, a kill included, the positions file holds a complete
\* snapshot (no save is part-way through writing it), and loadPositions() after
\* the restart returns the positions of that snapshot
C15_SavePositionsCrashAtomic ==
  /\ PositionsPath \notin PartialPaths
  /\ loadPositions = file
  /\ proc = "restarted" => recovered = file

C15_Witness ==
  /\ proc = "restarted"
  /\ recovered = file
  /\ \E b \in Batches : bat[b].pc = "renaming" /\ bat[b].toSave # file
  /\ \E o \in Ops : ops[o].pc = "writing"

\* C16: at every moment the alert history file holds a complete document (the
\* previous history or the new one), so a reader, or loadHistory() after a
\* kill at that moment, gets that history
C16_HistoryFileNeverPartial ==
  /\ ~histFile.partial
  /\ loadHistory = histFile.alerts

\* ---- alert claims
RecordsOf(fp) == {j \in 1..Len(persistedAlerts) : persistedAlerts[j].fingerprint = fp}
Recording(fp) == {p \in Pipes : pipes[p].pc \in {"persistCalled", "persisting"} /\ pipes[p].cur = fp}

\* C14: two sends of one fingerprint are more than the dedup window apart, an
\* alert is suppressed only when a send lies inside the window before it, and
\* every send makes exactly one alert record and one dispatch() call
C14_OneRecordOneDispatchPerWindow ==
  /\ ~badSuppress
  /\ \A fp \in Fingerprints :
       /\ \A i \in 1..(Len(sends[fp]) - 1) : sends[fp][i + 1] - sends[fp][i] > DedupWindow
       /\ Cardinality(RecordsOf(fp)) = Len(sends[fp])
       /\ \A i \in 1..Len(sends[fp]) :
            \E j \in RecordsOf(fp) : persistedAlerts[j].timestamp = sends[fp][i]
       /\ ndisp[fp] + Cardinality(Recording(fp)) = Len(sends[fp])

C14_Witness ==
  \E fp \in Fingerprints, p \in Pipes :
    /\ Len(sends[fp]) = 2
    /\ ndisp[fp] = 2
    /\ pipes[p].pc = "done" /\ pipes[p].processed = <<>>

\* ---- PnL claims
\* The reference formula: the price of the held side is the price itself for
\* YES and 1 - price for NO; pnl = amount * current / entry - amount
SidePrice(side, cents) == IF side = "YES" THEN cents ELSE 100 - cents
RefPnL(e, c, side, a) == Rat(a * SidePrice(side, c) - a * SidePrice(side, e), SidePrice(side, e))

\* C18: calculatePnL returns shares * current - amount and pnl / amount * 100
\* on the prices of the held side; YES 0.30 -> 0.40 on 100 gives +33.33 and NO
\* gives -14.29
C18_PnLFollowsReference ==
  calc.fn = "calculatePnL" /\ calc.done =>
    LET ref == RefPnL(calc.entryPrice, calc.currentPrice, calc.position, calc.amount) IN
    /\ RatEq(calc.out.pnl, ref)
    /\ RatEq(calc.out.currentValue,
             Rat(calc.amount * SidePrice(calc.position, calc.currentPrice),
                 SidePrice(calc.position, calc.entryPrice)))
    /\ calc.out.pnlPercent = ToFixed2(Rat(100 * ref.n, calc.amount * ref.d))
    /\ (calc.entryPrice = 30 /\ calc.currentPrice = 40 /\ calc.amount = 100) =>
         /\ calc.position = "YES" => ToFixed2(calc.out.pnl) = 3333 /\ calc.out.pnlPercent = 3333
         /\ calc.position = "NO" => ToFixed2(calc.out.pnl) = -1429

C18_Witness ==
  /\ calc.fn = "calculatePnL" /\ calc.done
  /\ calc.entryPrice = 30 /\ calc.currentPrice = 40 /\ calc.amount = 100 /\ calc.position = "NO"
  /\ ToFixed2(calc.out.pnl) = -1429

\* ---- update-cycle claims
Fired(type, severity) ==
  \E j \in 1..Len(calc.alerts) : calc.alerts[j] = [type |-> type, severity |-> severity]

\* C17: in every update cycle TIME_DECAY fires exactly when the market reports
\* 1..7 days to resolution in that cycle and LOW_LIQUIDITY exactly when it
\* reports liquidity under 5000; YES, 100 at 0.20, with the market at 0.35,
\* 40000 and 5 days fires TAKE_PROFIT and TIME_DECAY and not LOW_LIQUIDITY
C17_AlertsFromThisCyclesMarket ==
  (calc.fn = "performUpdate" /\ calc.cycle >= 1) =>
    /\ Fired("TIME_DECAY", "MEDIUM") <=> (calc.marketData.days <= 7 /\ calc.marketData.days > 0)
    /\ Fired("LOW_LIQUIDITY", "LOW") <=> calc.marketData.liquidity < 5000
    /\ (/\ calc.position.position = "YES" /\ calc.position.amount = 100
        /\ calc.position.entry_price = 20 /\ calc.marketData.yes = 35
        /\ calc.marketData.liquidity = 40000 /\ calc.marketData.days = 5) =>
         /\ Fired("TAKE_PROFIT", "HIGH")
         /\ Fired("TIME_DECAY", "MEDIUM")
         /\ ~Fired("LOW_LIQUIDITY", "LOW")

\* C19: whatever the endpoints do, dispatch() settles and does not reject:
\* processAlerts() never throws, it returns every alert it recorded, each of
\* them is in the alert history it persisted, and a call that is waiting on
\* its webhooks gets past them
C19_DeliveriesNeverFailTheCycle ==
  /\ [](\A p \in Pipes :
          /\ pipes[p].pc # "thrown"
          /\ pipes[p].pc = "done" => pipes[p].processed = pipes[p].sent)
  /\ \A p \in Pipes : (pipes[p].pc = "dispatching") ~> (pipes[p].pc # "dispatching")

C19_Witness ==
  \E p \in Pipes : pipes[p].pc = "done" /\ pipes[p].failed /\ pipes[p].processed # <<>>

\* The steps of a resolution in order, and what it comes to: the first market
\* a step finds, with the step's method; a failure of the lookup when a step
\* fails on the network; not found, with suggestions, when every step came
\* back without a market
InOrder(e) == <<e.byId, e.bySlug, e.byKeyword>>
MethodOf(step) == IF step = 3 THEN "keyword" ELSE "direct"
NoMarket(answer) == answer \in {"none", "http404"}

\* C20: resolution goes through the id lookup, the slug lookup and the
\* keyword search in that order and returns the first market found with its
\* method; when no step finds a market the error carries suggestions, and
\* only an error of the lookup itself carries none
C20_ResolvesInOrderOrSuggests ==
  (calc.fn = "getCompleteMarketData" /\ calc.done /\ calc.fallbackToSearch) =>
    LET steps == InOrder(calc.upstream)
        hits == {i \in 1..3 : ~NoMarket(steps[i])} IN
    IF hits = {}
    THEN /\ calc.out.kind = "error"
         /\ calc.upstream.suggestions = "list" =>
              (calc.out.message = "Market not found" /\ calc.out.suggestions = "list")
    ELSE LET i == CHOOSE j \in hits : \A k \in hits : j <= k IN
         IF steps[i] \in MarketIds
         THEN calc.out = Found(steps[i], MethodOf(i))
         ELSE calc.out.kind = "error" /\ calc.out.suggestions = "undefined"

\* C21: a request() the breaker disallows throws an error marked circuit-open
\* that names the group and the breaker's next-attempt time, makes no
\* attempt, and leaves the limiter, the breakers, the cache and the audit
\* trail as they were
C21_FailFastLeavesAllUnchanged ==
  [][\A r \in Reqs, g \in Groups :
       (CallRequest(r, g) /\ ~canExecute(cb[g], now).ret) =>
         /\ req'[r].pc = "thrown"
         /\ req'[r].circuitOpen
         /\ req'[r].endpoint = g
         /\ req'[r].nextAttempt = cb[g].nextAttempt
         /\ req'[r].nAtt = 0
         /\ rl' = rl
         /\ cb' = cb
         /\ audit' = audit
         /\ UNCHANGED cacheVars]_vars

C21_Witness ==
  \E r \in Reqs :
    /\ req[r].pc = "thrown" /\ req[r].circuitOpen
    /\ req[r].nextAttempt > now
    /\ audit.logs # <<>>

\* The attempts of the calls in rs that have settled
RECURSIVE SettledAttempts(_)
SettledAttempts(rs) ==
  IF rs = {} THEN 0
  ELSE LET r == CHOOSE x \in rs : TRUE IN
       req[r].nAtt - (IF req[r].pc = "exec" THEN 1 ELSE 0) + SettledAttempts(rs \ {r})

\* C22: with audit logging on, every attempt that has settled has appended
\* exactly one entry, and the trail never holds more than maxLogs entries
C22_OneEntryPerAttemptBounded ==
  audit.enabled =>
    /\ audit.appended = SettledAttempts(Reqs)
    /\ Len(audit.logs) <= MaxLogs

\* The acquire() calls that returned at a time from a to b
ReturnedIn(a, b) == {p \in Callers : acq[p].pc = "done" /\ acq[p].returned \in a..b}

\* C23: in any interval of T ticks at most capacity + T * refillRate calls of
\* acquire() return (refillRate = capacity / TicksPerSecond per tick), and
\* the tokens stay between 0 and capacity (in units of 1 / TicksPerSecond)
C23_RateBound ==
  /\ rl.tokens >= 0
  /\ rl.tokens <= capacity * TicksPerSecond
  /\ \A a \in 0..now : \A b \in a..now :
       Cardinality(ReturnedIn(a, b)) * TicksPerSecond
         <= capacity * TicksPerSecond + (b - a) * capacity

\* C23's case: more callers than capacity, all returned, the bound met with
\* equality on an interval that is not the whole run
C23_Witness ==
  /\ \A p \in Callers : acq[p].pc = "done"
  /\ capacity < NumCallers
  /\ \E a \in 0..now : \E b \in a..now :
       /\ b - a < now
       /\ Cardinality(ReturnedIn(a, b)) * TicksPerSecond
            = capacity * TicksPerSecond + (b - a) * capacity

\* The fetches made for key k, and the key's latest fetch having failed
FetchesOf(k) == {f \in FetchIds : fetches[f].st # "none" /\ fetches[f].key = k}
LastFailed(k) ==
  /\ FetchesOf(k) # {}
  /\ \E f \in FetchesOf(k) : fetches[f].st = "rejected" /\ \A e \in FetchesOf(k) : e <= f

\* A failed fetch: every caller that awaited it has the error, the pending
\* marker of its key does not name it, and the cache holds no value of it
FailedFetchPropagates ==
  \A f \in FetchIds : fetches[f].st = "rejected" =>
    /\ \A c \in CCallers : cc[c].awaiting = f => cc[c].pc = "failed"
    /\ pendingRequests[fetches[f].key] # f
    /\ ~(cache[fetches[f].key].has /\ cache[fetches[f].key].data = f)

\* C24 as stated: ... and the next getCached() call for the key starts a new
\* fetch
C24_NextCallStartsNewFetch ==
  /\ []FailedFetchPropagates
  /\ [][\A c \in CCallers, k \in Keys, ttl \in TTLs :
          (CallGetCached(c, k, ttl) /\ LastFailed(k)) =>
            /\ cc'[c].started
            /\ fetches'[cc'[c].awaiting].st = "inflight"
            /\ fetches[cc'[c].awaiting].st = "none"]_vars

\* C24: when the fetch in flight for a key fails, every caller awaiting it
\* gets the error, the pending marker is removed and nothing is cached by
\* that fetch; the next getCached() call for the key starts a new fetch,
\* unless the cache still holds an earlier value that is fresh under the ttl
\* of that call, which it returns
C24_FailedFetchThenNewFetch ==
  /\ []FailedFetchPropagates
  /\ [][\A c \in CCallers, k \in Keys, ttl \in TTLs :
          (CallGetCached(c, k, ttl) /\ LastFailed(k)) =>
            IF cache[k].has /\ now - cache[k].timestamp < ttl
            THEN cc'[c].pc = "returned" /\ cc'[c].value = cache[k].data
            ELSE /\ cc'[c].started
                 /\ fetches'[cc'[c].awaiting].st = "inflight"
                 /\ fetches[cc'[c].awaiting].st = "none"]_vars

\* C24's case: two callers got the error of one fetch and a third call for
\* the key started a new one
C24_Witness ==
  \E k \in Keys, f \in FetchIds, g \in FetchIds :
    /\ f < g
    /\ fetches[f].key = k /\ fetches[f].st = "rejected"
    /\ fetches[g].key = k /\ fetches[g].st = "inflight"
    /\ Cardinality({c \in CCallers : cc[c].awaiting = f /\ cc[c].pc = "failed"}) = 2
    /\ \E c \in CCallers : cc[c].awaiting = g /\ cc[c].started

\* The candidates of a call: the markets of the listing it does not skip
Candidates == {i \in 1..Len(calc.markets) : ~calc.markets[i].archived \/ calc.includeArchived}
TopScore == CHOOSE x \in {Score(calc.markets[i]) : i \in Candidates} :
              \A i \in Candidates : Score(calc.markets[i]) <= x
FirstTop == CHOOSE i \in Candidates :
              /\ Score(calc.markets[i]) = TopScore
              /\ \A j \in Candidates : Score(calc.markets[j]) = TopScore => i <= j
ConfiguredMinimum == IF calc.minScore = Undefined THEN 10 ELSE calc.minScore

\* C25: findMarketByKeywords() returns the candidate with the highest score,
\* the first of them in listing order, if and only if that score is at least
\* the configured minimum, and no market otherwise
C25_BestIffAtLeastMinimum ==
  (calc.fn = "findMarketByKeywords" /\ calc.done) =>
    IF Candidates # {} /\ TopScore >= ConfiguredMinimum
    THEN calc.out = FirstTop
    ELSE calc.out = 0

\* C26: the test and the stamp of shouldSendAlert() are one step: of the
\* pipelines that evaluate one fingerprint inside the window at most one is
\* answered shouldSend, so any two sends of a fingerprint, by whichever
\* pipelines, are more than the window apart
C26_DedupAtomic ==
  \A fp \in Fingerprints : \A i \in 1..Len(sends[fp]) : \A j \in 1..Len(sends[fp]) :
    i # j => Abs(sends[fp][j] - sends[fp][i]) > DedupWindow

\* C26's case: a pipeline is at work on a fingerprint it was answered
\* shouldSend for, and the other pipeline, called with that fingerprint alone,
\* was refused
C26_Witness ==
  \E p \in Pipes, q \in Pipes :
    /\ p # q
    /\ pipes[p].pc \in {"persistCalled", "persisting", "dispatching"} /\ pipes[p].cur = "f1"
    /\ pipes[q].pc = "done" /\ pipes[q].sent = <<>>
    /\ Len(sends["f1"]) = 1 /\ sends["f2"] = <<>>

\* C28: cleanup() deletes exactly the entries last sent more than twice the
\* window ago, so it changes no answer of shouldSendAlert(): with the timer
\* firing at any time no alert is suppressed without a send inside the
\* window, and no fingerprint is sent twice inside the window
C28_CleanupKeepsWindow ==
  /\ [](\A fp \in Fingerprints : \A i \in 1..(Len(sends[fp]) - 1) :
          sends[fp][i + 1] - sends[fp][i] > DedupWindow)
  /\ [][Cleanup =>
          \A fp \in Fingerprints :
            /\ alertHistory'[fp] =
                 IF alertHistory[fp] # NoTime /\ now - alertHistory[fp] > 2 * DedupWindow
                 THEN NoTime ELSE alertHistory[fp]
            /\ shouldSend(alertHistory'[fp], now) = shouldSend(alertHistory[fp], now)]_vars

\* C28's case: cleanup() has deleted the entry of a fingerprint that was
\* sent, and kept the entry of one sent inside twice the window
C28_Witness ==
  \E fp \in Fingerprints, fq \in Fingerprints :
    /\ sends[fp] # <<>> /\ alertHistory[fp] = NoTime
    /\ alertHistory[fq] # NoTime /\ now - alertHistory[fq] <= 2 * DedupWindow

\* C27: the alert history in memory never holds more than maxAlertsInMemory
\* records; every change of it appends one record, and when that takes it
\* over the cap what is left is the newest maxAlertsInMemory / 2 records, in
\* their order and as they were
C27_HistoryCapped ==
  /\ [](Len(persistedAlerts) <= MaxAlertsInMemory)
  /\ [][persistedAlerts' # persistedAlerts =>
          \E fp \in Fingerprints :
            LET pushed == persistedAlerts \o <<[fingerprint |-> fp, timestamp |-> now]>>
                n == Len(pushed) IN
            IF n > MaxAlertsInMemory
            THEN /\ Len(persistedAlerts') = MaxAlertsInMemory \div 2
                 /\ \A i \in 1..Len(persistedAlerts') :
                      persistedAlerts'[i] = pushed[n - Len(persistedAlerts') + i]
            ELSE persistedAlerts' = pushed]_vars

\* C27's case: more records were appended than the cap, so the oldest were
\* dropped
C27_Witness ==
  /\ Len(sends["f1"]) + Len(sends["f2"]) > MaxAlertsInMemory
  /\ Len(persistedAlerts) = MaxAlertsInMemory \div 2
  /\ persistedAlerts[Len(persistedAlerts)].timestamp = now

\* The last sample, and the samples before it taken at least an hour before
LastSample == calc.samples[Len(calc.samples)]
HourOld ==
  {i \in 1..(Len(calc.samples) - 1) :
     calc.samples[i].timestamp <= LastSample.timestamp - HourTicks}

\* C29: PRICE_MOVE fires in a cycle iff the price has changed by at least
\* the threshold against the price recorded at least one hour ago (the last
\* such sample), HIGH from 10% and MEDIUM below; with no such sample it does
\* not fire
C29_PriceMoveAgainstHourOld ==
  (calc.fn = "trackPriceHistory" /\ calc.samples # <<>>) =>
    IF HourOld = {}
    THEN calc.alerts = <<>>
    ELSE LET o == CHOOSE i \in HourOld : \A j \in HourOld : j <= i IN
         calc.alerts = PriceMove(calc.samples[o].price, LastSample.price)

\* C30: after every trackPriceHistory() call the history of the market has
\* at most maxPriceHistory entries, none older than an hour, and strictly
\* increasing timestamps
C30_HistoryBoundedOrdered ==
  (calc.fn = "trackPriceHistory" /\ calc.samples # <<>>) =>
    /\ Len(calc.history) <= MaxPriceHistory
    /\ \A i \in 1..Len(calc.history) :
         calc.history[i].timestamp >= LastSample.timestamp - HourTicks
    /\ \A i \in 1..(Len(calc.history) - 1) :
         calc.history[i].timestamp < calc.history[i + 1].timestamp

\* C31: after stopAutoUpdate() has returned, and until startAutoUpdate() is
\* called again, no timer starts a cycle; stopping aborts no cycle in flight,
\* neither one a timer started nor the initial one of a startAutoUpdate()
C31_NoCycleAfterStop ==
  [][/\ \A s \in StartCalls : TimerFire(s) => ~timer.stopped
     /\ CallStopAutoUpdate =>
          (timer'.running = timer.running /\ timer'.starts = timer.starts)]_vars

\* C39: every interval timer startAutoUpdate() created is the one recorded in
\* intervalId or has been cleared
C39_OneTimerRecorded ==
  \A s \in StartCalls : timer.timers[s] = "active" => timer.intervalId = s

\* C32: a failure recorded while the breaker is HALF_OPEN moves it to OPEN
\* with nextAttempt = now + timeout, whichever request the failure is of
C32_HalfOpenFailureReopens ==
  [][\A g \in Groups :
       (cb[g].state = "HALF_OPEN" /\ cb'[g].failures = cb[g].failures + 1)
         => (cb'[g].state = "OPEN" /\ cb'[g].nextAttempt = now + CBTimeout)]_vars

\* C33: the breaker is CLOSED exactly when its failure count is below the
\* threshold; OPEN and HALF_OPEN only with a count at or above it
C33_StateMatchesFailures ==
  \A g \in Groups : cb[g].state = "CLOSED" <=> cb[g].failures < threshold

\* C34: while the breaker stays OPEN, nextAttempt is the one set when it
\* opened: no later failure moves it
C34_CooldownFixedWhileOpen ==
  [][\A g \in Groups :
       (cb[g].state = "OPEN" /\ cb'[g].state = "OPEN")
         => cb'[g].nextAttempt = cb[g].nextAttempt]_vars

\* C35: pendingRequests holds an entry for a key exactly while a fetch that
\* getCached() started for the key is unsettled, and at most one fetch per
\* key is unsettled, clearCache() being called at any moment
UnsettledFetches(k) == {f \in FetchIds : fetches[f].st = "inflight" /\ fetches[f].key = k}

C35_PendingIffFetchInFlight ==
  \A k \in Keys :
    /\ pendingRequests[k] # 0 <=> UnsettledFetches(k) # {}
    /\ Cardinality(UnsettledFetches(k)) <= 1

\* C36: for one position, alert type and severity the fingerprint of the
\* first update cycle after addPosition is the one of every later cycle, and
\* no two alerts of one type and severity are recorded inside the dedup window
C36_FingerprintStable ==
  calc.fn = "generateFingerprint" =>
    /\ \A i, j \in DOMAIN calc.computed :
         (calc.computed[i].type = calc.computed[j].type
          /\ calc.computed[i].severity = calc.computed[j].severity)
           => calc.computed[i].fingerprint = calc.computed[j].fingerprint
    /\ \A i, j \in DOMAIN calc.recorded :
         (i < j /\ calc.recorded[i].type = calc.recorded[j].type
          /\ calc.recorded[i].severity = calc.recorded[j].severity)
           => calc.recorded[j].timestamp - calc.recorded[i].timestamp > DedupWindow

\* C37: for a NO position refreshed by performUpdate, with entry price and
\* amount fixed, a market with a higher NO price never gives a lower
\* unrealized PnL, and a market whose NO price is the entry NO price gives PnL 0
PnLPctAt(position, m) == performUpdateFields(position, m, <<>>).position.unrealized_pnl_pct
EntryNoPrice(position) == 100 - position.entry_price
AtEntryNo(position, m) ==
  [m EXCEPT !.no = EntryNoPrice(position), !.yes = 100 - EntryNoPrice(position)]

C37_NoPnLMonotonicInNoPrice ==
  (calc.fn = "performUpdate" /\ calc.cycle > 0 /\ calc.position.position = "NO") =>
    /\ \A m \in MarketData :
         m.no >= calc.marketData.no
           => PnLPctAt(calc.position, m) >= calc.position.unrealized_pnl_pct
    /\ PnLPctAt(calc.position, AtEntryNo(calc.position, calc.marketData)) = 0

\* C38: findMarketByKeywords() returns a market only if at least one search
\* term occurs in its question or its description, whatever its other
\* attributes and the minimum score
C38_ReturnedMarketMatchesATerm ==
  (calc.fn = "findMarketByKeywords" /\ calc.done /\ calc.out # 0) =>
    calc.markets[calc.out].inQuestion + calc.markets[calc.out].inDescription > 0

\* C40: the marker registered for a cache key is there only while the
\* request that registered it has not answered, whether it answers with a
\* cacheable success or with an error; no GET that finds the marker of a
\* request that has answered is answered with a success that has no data
C40_MarkerRemovedWhenRequestFinishes ==
  /\ \A k \in HttpKeys :
       mw.pending[k] # "none" => mw.reqs[mw.pending[k]].pc = "handling"
  /\ \A r \in HttpReqs :
       (mw.reqs[r].pc = "responded" /\ mw.reqs[r].stale /\ mw.reqs[r].success)
         => mw.reqs[r].data # NoData

====
